---- MODULE Spec2Model ----
(***************************************************************************)
(* CronDst: the cascading calendar search (_next_wallclock_datetime) and   *)
(* the DST-aware trigger iterator (CronDst.iter) of crondst/__init__.py.   *)
(*                                                                         *)
(* A datetime is a record [year, month, day, hour, minute, sub, fold].     *)
(* sub = 1 stands for a non-zero seconds/microseconds part of the minute   *)
(* (the "-1us" cursors of the iterator are minute:59.999999), sub = 0 for  *)
(* a whole minute.  The tzinfo of every datetime of one iteration is the   *)
(* same object and is kept in the variable tz.                             *)
(***************************************************************************)
EXTENDS Integers, Sequences, FiniteSets, TLC

VARIABLES
    entry,               \* the parsed _CronEntry (self.entry)
    tz,                  \* tzinfo of the start datetime
    budget,              \* max_years_between_matches
    given,               \* the start argument as passed by the caller
    pulls,               \* the number of values the consumer will pull
    start,               \* iter: cursor
    monotonic_datetime,  \* iter: last emitted value (or the normalized start)
    goto_datetime,       \* iter: pending rewind target or None
    pc,                  \* iter: "loop", "done"; search: "call", "ret"
    emitted,             \* the values yielded so far, in order
    passes,              \* loop passes taken since the last yield
    armed,               \* history: number of times goto_datetime was armed
    wresult,             \* search: the last value _next_wallclock_datetime returned
    expression,          \* from_expression: the text handed to the parser
    raised               \* the exception that ended the call, or None

vars == <<entry, tz, budget, given, pulls, start, monotonic_datetime, goto_datetime,
          pc, emitted, passes, armed, wresult, expression, raised>>

None == [none |-> TRUE]

\* an exception of class type
Exception(type, message) == [type |-> type, message |-> message]

ValueError(message) == Exception("ValueError", message)

\* the value of a call that raised instead of returning
IsRaised(value) == "type" \in DOMAIN value

\* F applied to the value of x, x evaluated once
Bind(x, F(_)) == CHOOSE out \in {F(v) : v \in {x}} : TRUE

MAX_YEARS_BETWEEN_MATCHES == 50

(***************************************************************************)
(* Host calendar (datetime module): proleptic Gregorian arithmetic.        *)
(***************************************************************************)
IsLeap(y) == (y % 4 = 0) /\ ((y % 100 # 0) \/ (y % 400 = 0))

MonthLen(y, m) ==
    IF m = 2 THEN (IF IsLeap(y) THEN 29 ELSE 28)
    ELSE IF m \in {4, 6, 9, 11} THEN 30 ELSE 31

DaysBeforeYear(y) ==
    (y - 1) * 365 + ((y - 1) \div 4) - ((y - 1) \div 100) + ((y - 1) \div 400)

\* days of the year before the first of month m (datetime's _days_before_month)
DaysBeforeMonth(y, m) ==
    <<0, 31, 59, 90, 120, 151, 181, 212, 243, 273, 304, 334>>[m]
    + (IF m > 2 /\ IsLeap(y) THEN 1 ELSE 0)

\* date.toordinal(): 0001-01-01 is day 1
toordinal(d) == DaysBeforeYear(d.year) + DaysBeforeMonth(d.year, d.month) + d.day

\* date.weekday(): Monday = 0
weekday(d) == (toordinal(d) + 6) % 7

\* d - timedelta(days=1), on the date fields
PrevDay(d) ==
    IF d.day > 1 THEN [d EXCEPT !.day = d.day - 1]
    ELSE IF d.month > 1
         THEN [d EXCEPT !.month = d.month - 1, !.day = MonthLen(d.year, d.month - 1)]
         ELSE [d EXCEPT !.year = d.year - 1, !.month = 12, !.day = 31]

\* d + timedelta(days=1), on the date fields
NextDay(d) ==
    IF d.day < MonthLen(d.year, d.month) THEN [d EXCEPT !.day = d.day + 1]
    ELSE IF d.month < 12
         THEN [d EXCEPT !.month = d.month + 1, !.day = 1]
         ELSE [d EXCEPT !.year = d.year + 1, !.month = 1, !.day = 1]

RECURSIVE AddDays(_, _)
AddDays(d, k) ==
    IF k = 0 THEN d
    ELSE IF k > 0 THEN AddDays(NextDay(d), k - 1)
    ELSE AddDays(PrevDay(d), k + 1)

FloorDiv(a, b) == IF a >= 0 THEN a \div b ELSE -((-a + b - 1) \div b)

\* d + timedelta(minutes=n) for a datetime d: naive wallclock arithmetic on
\* the civil fields; the result of datetime arithmetic has fold = 0
AddMinutes(d, n) ==
    LET total == d.hour * 60 + d.minute + n
        dd    == FloorDiv(total, 1440)
        rem   == total - dd * 1440
        date  == AddDays(d, dd)
    IN  [date EXCEPT !.hour = rem \div 60, !.minute = rem % 60, !.fold = 0]

\* variant of MinusOneMicrosecond that subtracts nothing
MinusNothing(d) == d

\* d + timedelta(microseconds=-1) for a whole-minute datetime d
MinusOneMicrosecond(d) == [AddMinutes(d, -1) EXCEPT !.sub = 1]

\* naive civil order of two datetimes (fold ignored): by date, then by time
DateKey(d) == (d.year * 12 + d.month) * 32 + d.day
TimeKey(d) == (d.hour * 60 + d.minute) * 2 + d.sub

CivilLess(a, b) ==
    \/ DateKey(a) < DateKey(b)
    \/ DateKey(a) = DateKey(b) /\ TimeKey(a) < TimeKey(b)
CivilLeq(a, b) == ~CivilLess(b, a)

DateTime(y, mo, d, h, mi) ==
    [year |-> y, month |-> mo, day |-> d, hour |-> h, minute |-> mi,
     sub |-> 0, fold |-> 0]

\* dt.datetime(year, month, day, hour, minute, tzinfo=start.tzinfo): the
\* constructor raises ValueError outside the years 1..9999 and for a day the
\* month does not have
NewDateTime(y, mo, d, h, mi) ==
    IF y < 1 \/ y > 9999
    THEN ValueError("year " \o ToString(y) \o " is out of range")
    ELSE IF d < 1 \/ d > MonthLen(y, mo)
    THEN ValueError("day is out of range for month")
    ELSE DateTime(y, mo, d, h, mi)

(***************************************************************************)
(* helpers                                                                 *)
(***************************************************************************)
\* (datetime.replace(month=(datetime.month % 12) + 1, day=1) - 1 day).day
_days_in_month(datetime) ==
    PrevDay([datetime EXCEPT !.month = (datetime.month % 12) + 1, !.day = 1]).day

RECURSIVE BinarySearch(_, _, _, _)
BinarySearch(numbers, target, low, high) ==
    IF low + 1 < high
    THEN Bind(low + ((high - low) \div 2), LAMBDA mid :
             IF target <= numbers[mid + 1]
             THEN BinarySearch(numbers, target, low, mid)
             ELSE BinarySearch(numbers, target, mid, high))
    ELSE high

\* 0-based insertion index i, 0 <= i <= len(numbers); numbers is 1-based here
_index_of_nearest_number(numbers, target) ==
    BinarySearch(numbers, target, -1, Len(numbers))

\* numbers[idx] for a 0-based idx
At(numbers, idx) == numbers[idx + 1]

SeqToSet(s) == {s[i] : i \in 1..Len(s)}

\* variant of MergeLoop whose weekday is not advanced before the first day
MergeLoopLateIncrement(last, wd, days_set, days_of_week_set, use_and_operator) ==
    SelectSeq([day \in 1..last |-> day],
              LAMBDA day :
                  IF use_and_operator
                  THEN day \in days_set /\ ((wd + day - 1) % 7) \in days_of_week_set
                  ELSE day \in days_set \/ ((wd + day - 1) % 7) \in days_of_week_set)

\* for day in range(1, last + 1): weekday = (weekday + 1) % 7; ... append(day)
\* the loop's weekday at day `day` is wd advanced `day` times, (wd + day) % 7
MergeLoop(last, wd, days_set, days_of_week_set, use_and_operator) ==
    SelectSeq([day \in 1..last |-> day],
              LAMBDA day :
                  IF use_and_operator
                  THEN day \in days_set /\ ((wd + day) % 7) \in days_of_week_set
                  ELSE day \in days_set \/ ((wd + day) % 7) \in days_of_week_set)

merge_days_and_days_of_week(e, datetime) ==
    Bind(e.day_star \/ e.day_of_week_star, LAMBDA use_and_operator :
    Bind(SeqToSet(e.days), LAMBDA days_set :
    Bind(IF 7 \in SeqToSet(e.days_of_week)
         THEN {0} \cup SeqToSet(e.days_of_week)
         ELSE SeqToSet(e.days_of_week), LAMBDA days_of_week_set :
    Bind(weekday([datetime EXCEPT !.day = 1]), LAMBDA wd :
    Bind(_days_in_month(datetime), LAMBDA last :
        MergeLoop(last, wd, days_set, days_of_week_set, use_and_operator))))))

\* variant of is_wildcard that reads the star flags of the two day fields
is_wildcard_by_day(e) == e.day_star \/ e.day_of_week_star

is_wildcard(e) == e.minute_star \/ e.hour_star

\* variant of has_triggers that counts February as 28 days long
has_triggers_february_28(e) ==
    LET max_day_of_month == <<31, 28, 31, 30, 31, 30, 31, 31, 30, 31, 30, 31>>
        longest == CHOOSE x \in {max_day_of_month[e.months[i]] : i \in 1..Len(e.months)} :
                       \A y \in {max_day_of_month[e.months[i]] : i \in 1..Len(e.months)} : y <= x
    IN  IF e.day_of_week_star
        THEN ~(e.days[Len(e.days)] > longest)
        ELSE TRUE

\* variant of has_triggers that checks the days whatever the day-of-week field is
has_triggers_any_day_of_week(e) ==
    LET max_day_of_month == <<31, 29, 31, 30, 31, 30, 31, 31, 30, 31, 30, 31>>
        longest == CHOOSE x \in {max_day_of_month[e.months[i]] : i \in 1..Len(e.months)} :
                       \A y \in {max_day_of_month[e.months[i]] : i \in 1..Len(e.months)} : y <= x
    IN  ~(e.days[Len(e.days)] > longest)

has_triggers(e) ==
    LET max_day_of_month == <<31, 29, 31, 30, 31, 30, 31, 31, 30, 31, 30, 31>>
        longest == CHOOSE x \in {max_day_of_month[e.months[i]] : i \in 1..Len(e.months)} :
                       \A y \in {max_day_of_month[e.months[i]] : i \in 1..Len(e.months)} : y <= x
    IN  IF e.day_of_week_star
        THEN ~(e.days[Len(e.days)] > longest)
        ELSE TRUE

(***************************************************************************)
(* _CronEntry.from_expression: the parser.  A text is a sequence of        *)
(* one-character strings.  An expression is a sequence of items, each a    *)
(* run of whitespace [ws |-> n] of n >= 1 characters or a word             *)
(* [word |-> text] of non-whitespace characters; runs and words alternate. *)
(***************************************************************************)
MAX_EXPRESSION_LENGTH == 1000

\* variant of FIELD_BOUNDS with the day-of-week field ending at 6
FIELD_BOUNDS_SATURDAY == << <<0, 59>>, <<0, 23>>, <<1, 31>>, <<1, 12>>, <<0, 6>> >>

\* FIELD_PROPS[idx].bound, idx counted from 1
FIELD_BOUNDS == << <<0, 59>>, <<0, 23>>, <<1, 31>>, <<1, 12>>, <<0, 7>> >>

\* f"Bad {FIELD_PROPS[idx].name}"
BAD_FIELD ==
    <<"Bad minute", "Bad hour", "Bad day-of-month", "Bad month", "Bad day-of-week">>

\* variant of FIELD_TEXT_MAP with the names of the months in the minute field
FIELD_TEXT_MAP_IN_MINUTES == <<
    { << <<"j", "a", "n">>, 1 >>, << <<"f", "e", "b">>, 2 >> }, {}, {},
    { << <<"j", "a", "n">>, 1 >>, << <<"f", "e", "b">>, 2 >>, << <<"m", "a", "r">>, 3 >>,
      << <<"a", "p", "r">>, 4 >>, << <<"m", "a", "y">>, 5 >>, << <<"j", "u", "n">>, 6 >>,
      << <<"j", "u", "l">>, 7 >>, << <<"a", "u", "g">>, 8 >>, << <<"s", "e", "p">>, 9 >>,
      << <<"o", "c", "t">>, 10 >>, << <<"n", "o", "v">>, 11 >>, << <<"d", "e", "c">>, 12 >> },
    { << <<"s", "u", "n">>, 0 >>, << <<"m", "o", "n">>, 1 >>, << <<"t", "u", "e">>, 2 >>,
      << <<"w", "e", "d">>, 3 >>, << <<"t", "h", "u">>, 4 >>, << <<"f", "r", "i">>, 5 >>,
      << <<"s", "a", "t">>, 6 >> } >>

\* FIELD_PROPS[idx].text_map as a set of <<name, number>>
FIELD_TEXT_MAP == <<
    {}, {}, {},
    { << <<"j", "a", "n">>, 1 >>, << <<"f", "e", "b">>, 2 >>, << <<"m", "a", "r">>, 3 >>,
      << <<"a", "p", "r">>, 4 >>, << <<"m", "a", "y">>, 5 >>, << <<"j", "u", "n">>, 6 >>,
      << <<"j", "u", "l">>, 7 >>, << <<"a", "u", "g">>, 8 >>, << <<"s", "e", "p">>, 9 >>,
      << <<"o", "c", "t">>, 10 >>, << <<"n", "o", "v">>, 11 >>, << <<"d", "e", "c">>, 12 >> },
    { << <<"s", "u", "n">>, 0 >>, << <<"m", "o", "n">>, 1 >>, << <<"t", "u", "e">>, 2 >>,
      << <<"w", "e", "d">>, 3 >>, << <<"t", "h", "u">>, 4 >>, << <<"f", "r", "i">>, 5 >>,
      << <<"s", "a", "t">>, 6 >> } >>

LENGTH_ERROR == "Bad expression - length exceeds 1000 characters"
FIELDS_ERROR == "Bad expression - expect five (5) fields separated by whitespace"
EMPTY_ERROR == "Bad expression"
NO_TRIGGERS_ERROR == "Bad expression - results in no triggers"

IsWhitespace(item) == "ws" \in DOMAIN item

\* variant of ExpressionLength that leaves out the whitespace around the fields
RECURSIVE ExpressionLengthStripped(_)
ExpressionLengthStripped(expr) ==
    IF expr = <<>> THEN 0
    ELSE IF IsWhitespace(expr[1]) THEN ExpressionLengthStripped(Tail(expr))
    ELSE IF IsWhitespace(expr[Len(expr)])
         THEN ExpressionLengthStripped(SubSeq(expr, 1, Len(expr) - 1))
    ELSE (IF Len(expr) > 1 THEN expr[2].ws + ExpressionLengthStripped(Tail(Tail(expr)))
          ELSE 0) + Len(expr[1].word)

\* len(expression)
RECURSIVE ExpressionLength(_)
ExpressionLength(expr) ==
    IF expr = <<>> THEN 0
    ELSE (IF IsWhitespace(expr[1]) THEN expr[1].ws ELSE Len(expr[1].word))
         + ExpressionLength(Tail(expr))

\* expression.strip().split(): the words, in order
RECURSIVE SplitWhitespace(_)
SplitWhitespace(expr) ==
    IF expr = <<>> THEN <<>>
    ELSE IF IsWhitespace(expr[1]) THEN SplitWhitespace(Tail(expr))
    ELSE <<expr[1].word>> \o SplitWhitespace(Tail(expr))

\* text.find(sep) + 1: the position of the first sep, 0 when there is none
Find(text, sep) ==
    IF \E i \in 1..Len(text) : text[i] = sep
    THEN CHOOSE i \in 1..Len(text) :
             text[i] = sep /\ \A j \in 1..(i - 1) : text[j] # sep
    ELSE 0

\* text.split(sep)
RECURSIVE Split(_, _)
Split(text, sep) ==
    Bind(Find(text, sep), LAMBDA i :
        IF i = 0 THEN <<text>>
        ELSE <<SubSeq(text, 1, i - 1)>> \o Split(SubSeq(text, i + 1, Len(text)), sep))

\* text.split(sep, maxsplit=1)
SplitOnce(text, sep) ==
    Bind(Find(text, sep), LAMBDA i :
        IF i = 0 THEN <<text>>
        ELSE <<SubSeq(text, 1, i - 1), SubSeq(text, i + 1, Len(text))>>)

Digits == {"0", "1", "2", "3", "4", "5", "6", "7", "8", "9"}

DigitValue ==
    ("0" :> 0) @@ ("1" :> 1) @@ ("2" :> 2) @@ ("3" :> 3) @@ ("4" :> 4) @@
    ("5" :> 5) @@ ("6" :> 6) @@ ("7" :> 7) @@ ("8" :> 8) @@ ("9" :> 9)

\* the value of decimal digits with `_` separators
RECURSIVE DecimalValue(_, _)
DecimalValue(text, acc) ==
    IF text = <<>> THEN acc
    ELSE IF text[1] = "_" THEN DecimalValue(Tail(text), acc)
    ELSE DecimalValue(Tail(text), acc * 10 + DigitValue[text[1]])

\* int(text): [num |-> n], or None for ValueError.  A literal is an optional
\* sign followed by digits, with single underscores allowed between digits.
int(text) ==
    Bind(IF text # <<>> /\ text[1] \in {"+", "-"} THEN Tail(text) ELSE text, LAMBDA body :
        IF /\ body # <<>>
           /\ \A i \in 1..Len(body) : body[i] \in Digits \cup {"_"}
           /\ body[1] \in Digits /\ body[Len(body)] \in Digits
           /\ \A i \in 1..(Len(body) - 1) : ~(body[i] = "_" /\ body[i + 1] = "_")
        THEN [num |-> IF text[1] = "-" THEN 0 - DecimalValue(body, 0)
                      ELSE DecimalValue(body, 0)]
        ELSE None)

\* [num |-> n] or None
_number_from_item(item, text_map) ==
    Bind(int(item), LAMBDA number :
        IF number # None THEN number
        ELSE IF \E p \in text_map : p[1] = item
             THEN [num |-> (CHOOSE p \in text_map : p[1] = item)[2]]
             ELSE None)

\* variant of RangeSet that always ends with hi
RangeSetWithLast(lo, hi, step) ==
    IF lo > hi THEN {} ELSE {lo + k * step : k \in 0..((hi - lo) \div step)} \cup {hi}

\* set(range(lo, hi + 1, step)) for step >= 1
RangeSet(lo, hi, step) ==
    IF lo > hi THEN {} ELSE {lo + k * step : k \in 0..((hi - lo) \div step)}

Bad == [bad |-> TRUE]

\* the numbers one token of a field adds to structure[idx], or Bad for
\* raise CronDstError(f"Bad {name}")
TokenNumbers(idx, token) ==
    Bind(SplitOnce(token, "/"), LAMBDA parts :
    Bind(IF Len(parts) > 1 THEN int(parts[2]) ELSE [num |-> 1], LAMBDA step :
    Bind(FIELD_BOUNDS[idx], LAMBDA bound :
        IF step = None THEN Bad
        ELSE IF step.num <= 0 THEN Bad
        ELSE IF parts[1] = <<"*">>
        THEN [numbers |-> RangeSet(bound[1], bound[2], step.num)]
        ELSE Bind(Split(parts[1], "-"), LAMBDA range_expression :
             IF Len(range_expression) = 1
             THEN Bind(_number_from_item(parts[1], FIELD_TEXT_MAP[idx]), LAMBDA num :
                      IF num = None THEN Bad
                      ELSE IF num.num < bound[1] \/ num.num > bound[2] THEN Bad
                      ELSE IF Len(parts) > 1
                      THEN [numbers |-> RangeSet(num.num, bound[2], step.num)]
                      ELSE [numbers |-> {num.num}])
             ELSE IF Len(range_expression) # 2 THEN Bad
             ELSE Bind(_number_from_item(range_expression[1], FIELD_TEXT_MAP[idx]), LAMBDA lower :
                  Bind(_number_from_item(range_expression[2], FIELD_TEXT_MAP[idx]), LAMBDA upper :
                      IF lower = None \/ upper = None THEN Bad
                      ELSE IF lower.num > upper.num THEN Bad
                      ELSE IF lower.num < bound[1] \/ upper.num > bound[2] THEN Bad
                      ELSE [numbers |-> RangeSet(lower.num, upper.num, step.num)]))))))

\* for token in field.split(','): ... structure[idx].update(...)
RECURSIVE TokensNumbers(_, _, _)
TokensNumbers(idx, tokens, acc) ==
    IF tokens = <<>> THEN [numbers |-> acc]
    ELSE Bind(TokenNumbers(idx, tokens[1]), LAMBDA t :
             IF t = Bad THEN Bad
             ELSE TokensNumbers(idx, Tail(tokens), acc \cup t.numbers))

\* structure[idx] after the field's tokens, or Bad
FieldNumbers(idx, field) == TokensNumbers(idx, Split(field, ","), {})

\* variant of StartsWithStar that looks for `*` anywhere in the field
ContainsStar(field) == \E i \in 1..Len(field) : field[i] = "*"

\* field.startswith('*')
StartsWithStar(field) == field # <<>> /\ field[1] = "*"

\* variant of Sorted that lists the numbers from the largest to the smallest
SortedDescending(idx, numbers) ==
    SelectSeq([i \in 1..(FIELD_BOUNDS[idx][2] - FIELD_BOUNDS[idx][1] + 1) |->
                   FIELD_BOUNDS[idx][2] - i + 1],
              LAMBDA n : n \in numbers)

\* sorted(structure[idx]); the numbers lie within the field's bounds
Sorted(idx, numbers) ==
    SelectSeq([i \in 1..(FIELD_BOUNDS[idx][2] - FIELD_BOUNDS[idx][1] + 1) |->
                   FIELD_BOUNDS[idx][1] + i - 1],
              LAMBDA n : n \in numbers)

CronDstError(message) == Exception("CronDstError", message)

Raise(error) == [raised |-> CronDstError(error), entry |-> None]

\* the entry built from the five parsed fields, returned unless has_triggers
\* rejects it
BuiltEntry(fields, structure) ==
    Bind([minutes |-> Sorted(1, structure[1].numbers),
          hours |-> Sorted(2, structure[2].numbers),
          days |-> Sorted(3, structure[3].numbers),
          months |-> Sorted(4, structure[4].numbers),
          days_of_week |-> Sorted(5, structure[5].numbers),
          minute_star |-> StartsWithStar(fields[1]),
          hour_star |-> StartsWithStar(fields[2]),
          day_star |-> StartsWithStar(fields[3]),
          day_of_week_star |-> StartsWithStar(fields[5])], LAMBDA e :
        IF ~has_triggers(e) THEN Raise(NO_TRIGGERS_ERROR)
        ELSE [raised |-> None, entry |-> e])

\* from_expression(expression): [raised |-> the error or None, entry |-> the
\* entry returned or None]; the fields are parsed left to right and the first
\* bad one raises
from_expression(expr) ==
    IF ExpressionLength(expr) > MAX_EXPRESSION_LENGTH THEN Raise(LENGTH_ERROR)
    ELSE Bind(SplitWhitespace(expr), LAMBDA fields :
         IF Len(fields) # 5 THEN Raise(FIELDS_ERROR)
         ELSE Bind([idx \in 1..5 |-> FieldNumbers(idx, fields[idx])], LAMBDA structure :
              IF \E idx \in 1..5 : structure[idx] = Bad
              THEN Raise(BAD_FIELD[CHOOSE idx \in 1..5 :
                                       /\ structure[idx] = Bad
                                       /\ \A j \in 1..(idx - 1) : structure[j] # Bad])
              ELSE IF \E idx \in 1..5 : structure[idx].numbers = {}
              THEN Raise(EMPTY_ERROR)
              ELSE BuiltEntry(fields, structure)))

(***************************************************************************)
(* _next_wallclock_datetime: the cascading search.  c is the running       *)
(* candidate [minute, hour, day, month, year, is_placeholder_day].         *)
(***************************************************************************)
\* variant of MinutesStage: the minute search begins at start.minute instead of start.minute + 1
MinutesStageFromStart(st, e) ==
    Bind(_index_of_nearest_number(e.minutes, st.minute), LAMBDA idx :
        IF idx < Len(e.minutes)
        THEN [minute |-> At(e.minutes, idx), hour |-> st.hour, day |-> st.day,
              month |-> st.month, year |-> st.year, is_placeholder_day |-> FALSE]
        ELSE [minute |-> At(e.minutes, 0), hour |-> st.hour + 1, day |-> st.day,
              month |-> st.month, year |-> st.year, is_placeholder_day |-> FALSE])

MinutesStage(st, e) ==
    Bind(_index_of_nearest_number(e.minutes, st.minute + 1), LAMBDA idx :
        IF idx < Len(e.minutes)
        THEN [minute |-> At(e.minutes, idx), hour |-> st.hour, day |-> st.day,
              month |-> st.month, year |-> st.year, is_placeholder_day |-> FALSE]
        ELSE [minute |-> At(e.minutes, 0), hour |-> st.hour + 1, day |-> st.day,
              month |-> st.month, year |-> st.year, is_placeholder_day |-> FALSE])

\* variant of HoursStage: the minute is not reset when the hour advances within the day
HoursStageKeepsMinute(st, e, c) ==
    Bind(_index_of_nearest_number(e.hours, c.hour), LAMBDA idx :
        IF idx < Len(e.hours)
        THEN [c EXCEPT !.hour = At(e.hours, idx)]
        ELSE [c EXCEPT !.minute = At(e.minutes, 0), !.hour = At(e.hours, 0),
                       !.day = c.day + 1])

HoursStage(st, e, c) ==
    Bind(_index_of_nearest_number(e.hours, c.hour), LAMBDA idx :
        IF idx < Len(e.hours)
        THEN IF At(e.hours, idx) # st.hour
             THEN [c EXCEPT !.hour = At(e.hours, idx), !.minute = At(e.minutes, 0)]
             ELSE [c EXCEPT !.hour = At(e.hours, idx)]
        ELSE [c EXCEPT !.minute = At(e.minutes, 0), !.hour = At(e.hours, 0),
                       !.day = c.day + 1])

\* variant of DaysStage that does not carry into the month when the days of
\* the month are used up
DaysStageNoCarry(st, e, c) ==
    Bind(merge_days_and_days_of_week(e, st), LAMBDA days_and_days_of_week :
    Bind(_index_of_nearest_number(days_and_days_of_week, c.day), LAMBDA idx :
        IF idx < Len(days_and_days_of_week)
        THEN IF At(days_and_days_of_week, idx) # st.day
             THEN [c EXCEPT !.day = At(days_and_days_of_week, idx),
                            !.minute = At(e.minutes, 0), !.hour = At(e.hours, 0)]
             ELSE [c EXCEPT !.day = At(days_and_days_of_week, idx)]
        ELSE [c EXCEPT !.minute = At(e.minutes, 0), !.hour = At(e.hours, 0),
                       !.day = 1, !.is_placeholder_day = TRUE]))

DaysStage(st, e, c) ==
    Bind(merge_days_and_days_of_week(e, st), LAMBDA days_and_days_of_week :
    Bind(_index_of_nearest_number(days_and_days_of_week, c.day), LAMBDA idx :
        IF idx < Len(days_and_days_of_week)
        THEN IF At(days_and_days_of_week, idx) # st.day
             THEN [c EXCEPT !.day = At(days_and_days_of_week, idx),
                            !.minute = At(e.minutes, 0), !.hour = At(e.hours, 0)]
             ELSE [c EXCEPT !.day = At(days_and_days_of_week, idx)]
        ELSE [c EXCEPT !.minute = At(e.minutes, 0), !.hour = At(e.hours, 0),
                       !.day = 1, !.month = c.month + 1, !.is_placeholder_day = TRUE]))

\* one pass of the month selection at the head of the loop body
MonthsStage(st, e, c) ==
    Bind(_index_of_nearest_number(e.months, c.month), LAMBDA idx :
        IF idx < Len(e.months)
        THEN IF At(e.months, idx) # st.month
             THEN [c EXCEPT !.month = At(e.months, idx), !.minute = At(e.minutes, 0),
                            !.hour = At(e.hours, 0), !.day = 1,
                            !.is_placeholder_day = TRUE]
             ELSE [c EXCEPT !.month = At(e.months, idx)]
        ELSE [c EXCEPT !.minute = At(e.minutes, 0), !.hour = At(e.hours, 0),
                       !.day = 1, !.month = At(e.months, 0), !.year = c.year + 1,
                       !.is_placeholder_day = TRUE])

\* variant of MonthsLoop that moves two months on from a month without a day
RECURSIVE MonthsLoopSkipsMonth(_, _, _, _)
MonthsLoopSkipsMonth(n, st, e, c) ==
    IF n <= 0 THEN None
    ELSE Bind(MonthsStage(st, e, c), LAMBDA c1 :
         Bind(NewDateTime(c1.year, c1.month, c1.day, c1.hour, c1.minute), LAMBDA ts :
             IF IsRaised(ts) THEN ts
             ELSE IF c1.is_placeholder_day
             THEN Bind(merge_days_and_days_of_week(e, ts), LAMBDA days_and_days_of_week :
                      IF days_and_days_of_week # <<>>
                      THEN [ts EXCEPT !.day = days_and_days_of_week[1]]
                      ELSE Bind(n - 1, LAMBDA left :
                               MonthsLoopSkipsMonth(left, st, e,
                                                    [c1 EXCEPT !.month = c1.month + 2])))
             ELSE ts))

\* for _ in range(n): ... ; None when the range is exhausted without a break
RECURSIVE MonthsLoop(_, _, _, _)
MonthsLoop(n, st, e, c) ==
    IF n <= 0 THEN None
    ELSE Bind(MonthsStage(st, e, c), LAMBDA c1 :
         Bind(NewDateTime(c1.year, c1.month, c1.day, c1.hour, c1.minute), LAMBDA ts :
             IF IsRaised(ts) THEN ts
             ELSE IF c1.is_placeholder_day
             THEN Bind(merge_days_and_days_of_week(e, ts), LAMBDA days_and_days_of_week :
                      IF days_and_days_of_week # <<>>
                      THEN [ts EXCEPT !.day = days_and_days_of_week[1]]
                      ELSE Bind(n - 1, LAMBDA left :
                               MonthsLoop(left, st, e, [c1 EXCEPT !.month = c1.month + 1])))
             ELSE ts))

Max(a, b) == IF a >= b THEN a ELSE b

\* variant of _next_wallclock_datetime that reads the budget as months
next_wallclock_datetime_budget_in_months(st, e, max_years_between_matches) ==
    Bind(MinutesStage(st, e), LAMBDA c0 :
    Bind(HoursStage(st, e, c0), LAMBDA c1 :
    Bind(DaysStage(st, e, c1), LAMBDA c2 :
        MonthsLoop(Max(max_years_between_matches, 0) \div 12, st, e, c2))))

_next_wallclock_datetime(st, e, max_years_between_matches) ==
    Bind(MinutesStage(st, e), LAMBDA c0 :
    Bind(HoursStage(st, e, c0), LAMBDA c1 :
    Bind(DaysStage(st, e, c1), LAMBDA c2 :
        MonthsLoop(Max(max_years_between_matches, 0) * 12, st, e, c2))))

(***************************************************************************)
(* Host time zone (tzinfo): a zone is a sequence of transitions, each with *)
(* the UTC offsets (minutes) before and after it and the civil readings    *)
(* lo < hi of the two clocks at the instant of the change.  Civil times in *)
(* [lo, hi) are missing when after > before and ambiguous otherwise.       *)
(***************************************************************************)
Transition(lo, hi, before, after) ==
    [lo |-> lo, hi |-> hi, before |-> before, after |-> after]

RECURSIVE OffsetFrom(_, _, _, _)
OffsetFrom(trans, i, d, cur) ==
    IF i > Len(trans) THEN cur
    ELSE Bind(IF d.fold = 0 THEN trans[i].hi ELSE trans[i].lo, LAMBDA threshold :
             IF CivilLeq(threshold, d)
             THEN OffsetFrom(trans, i + 1, d, trans[i].after)
             ELSE cur)

\* d.utcoffset() in minutes: fold = 0 keeps the old offset up to hi, fold = 1
\* takes the new offset from lo on
utcoffset(zone, d) ==
    IF zone.trans = <<>> THEN zone.base
    ELSE OffsetFrom(zone.trans, 1, d, zone.trans[1].before)

\* d.timestamp() as [day, m]: m counts half minutes from the day's start in UTC
timestamp(zone, d) ==
    [day |-> toordinal(d),
     m |-> (d.hour * 60 + d.minute - utcoffset(zone, d)) * 2 + d.sub]

\* a.timestamp() - b.timestamp(), in half minutes
TsDiff(zone, a, b) ==
    Bind(timestamp(zone, a), LAMBDA ta :
    Bind(timestamp(zone, b), LAMBDA tb :
        (ta.day - tb.day) * 2880 + ta.m - tb.m))

\* minutes from the instant of transition t to the instant of datetime d
SinceTransition(zone, t, d) ==
    LET shift == Max(t.before, t.after)
    IN  (toordinal(d) - toordinal(t.hi)) * 1440
        + (d.hour * 60 + d.minute - utcoffset(zone, d))
        - (t.hi.hour * 60 + t.hi.minute - shift)

RECURSIVE LastTransition(_, _, _, _)
LastTransition(zone, i, d, cur) ==
    IF i > Len(zone.trans) THEN cur
    ELSE IF SinceTransition(zone, zone.trans[i], d) >= 0
         THEN LastTransition(zone, i + 1, d, i)
         ELSE cur

\* variant of fromtimestamp that returns the civil reading it was given
fromtimestampKept(zone, d) == d

\* dt.datetime.fromtimestamp(d.timestamp(), tz=d.tzinfo): the civil reading of
\* d's instant, with fold = 1 on the second pass through an ambiguous time
fromtimestamp(zone, d) ==
    LET i == LastTransition(zone, 1, d, 0)
        real == IF zone.trans = <<>> THEN zone.base
                ELSE IF i = 0 THEN zone.trans[1].before ELSE zone.trans[i].after
        civil == AddMinutes(d, real - utcoffset(zone, d))
        second == /\ i > 0
                  /\ zone.trans[i].before > zone.trans[i].after
                  /\ SinceTransition(zone, zone.trans[i], d)
                       < zone.trans[i].before - zone.trans[i].after
    IN  [civil EXCEPT !.fold = IF second THEN 1 ELSE 0]

_delta_seconds_between_fold(zone, datetime) ==
    Bind([datetime EXCEPT !.fold = 0], LAMBDA fold0 :
    Bind([datetime EXCEPT !.fold = 1], LAMBDA fold1 :
        TsDiff(zone, fold0, fold1) * 30))

(***************************************************************************)
(* Inputs: parsed schedules, time zones and start datetimes.               *)
(***************************************************************************)
MaxPulls == 8       \* values pulled from one iteration
LongPulls == 124    \* values pulled from an every-minute schedule across a transition
MaxPasses == 4      \* loop passes allowed between two yields
MaxCalls == 3       \* chained calls of the search in SpecSearch

\* range(lo, hi + 1, step) as a sequence
RECURSIVE Range(_, _, _)
Range(lo, hi, step) == IF lo > hi THEN <<>> ELSE <<lo>> \o Range(lo + step, hi, step)

CronEntry(minutes, hours, days, months, days_of_week, stars) ==
    [minutes |-> minutes, hours |-> hours, days |-> days, months |-> months,
     days_of_week |-> days_of_week,
     minute_star |-> stars[1], hour_star |-> stars[2],
     day_star |-> stars[3], day_of_week_star |-> stars[4]]

AllMinutes == Range(0, 59, 1)
AllHours == Range(0, 23, 1)
AllDays == Range(1, 31, 1)
AllMonths == Range(1, 12, 1)
AllDaysOfWeek == Range(0, 7, 1)

\* the entries from_expression builds for these expressions
WildcardEntries == {
    \* "* * * * *"
    CronEntry(AllMinutes, AllHours, AllDays, AllMonths, AllDaysOfWeek,
              <<TRUE, TRUE, TRUE, TRUE>>),
    \* "*/30 0-23 * * *"
    CronEntry(<<0, 30>>, AllHours, AllDays, AllMonths, AllDaysOfWeek,
              <<TRUE, FALSE, TRUE, TRUE>>),
    \* "15,45 * * * *"
    CronEntry(<<15, 45>>, AllHours, AllDays, AllMonths, AllDaysOfWeek,
              <<FALSE, TRUE, TRUE, TRUE>>),
    \* "0 * * * *"
    CronEntry(<<0>>, AllHours, AllDays, AllMonths, AllDaysOfWeek,
              <<FALSE, TRUE, TRUE, TRUE>>),
    \* "0 */2 * * *"
    CronEntry(<<0>>, Range(0, 23, 2), AllDays, AllMonths, AllDaysOfWeek,
              <<FALSE, TRUE, TRUE, TRUE>>),
    \* "*/20 1-3 * * *"
    CronEntry(<<0, 20, 40>>, <<1, 2, 3>>, AllDays, AllMonths, AllDaysOfWeek,
              <<TRUE, FALSE, TRUE, TRUE>>)
}

FixedEntries == {
    \* "0-59 0-23 * * *"
    CronEntry(AllMinutes, AllHours, AllDays, AllMonths, AllDaysOfWeek,
              <<FALSE, FALSE, TRUE, TRUE>>),
    \* "0,30 0-23 * * *"
    CronEntry(<<0, 30>>, AllHours, AllDays, AllMonths, AllDaysOfWeek,
              <<FALSE, FALSE, TRUE, TRUE>>),
    \* "15,45 1-3 * * *"
    CronEntry(<<15, 45>>, <<1, 2, 3>>, AllDays, AllMonths, AllDaysOfWeek,
              <<FALSE, FALSE, TRUE, TRUE>>),
    \* "0 2 * * *"
    CronEntry(<<0>>, <<2>>, AllDays, AllMonths, AllDaysOfWeek,
              <<FALSE, FALSE, TRUE, TRUE>>),
    \* "30 1,2,3 * * *"
    CronEntry(<<30>>, <<1, 2, 3>>, AllDays, AllMonths, AllDaysOfWeek,
              <<FALSE, FALSE, TRUE, TRUE>>),
    \* "0 0-23/2 * * *"
    CronEntry(<<0>>, Range(0, 23, 2), AllDays, AllMonths, AllDaysOfWeek,
              <<FALSE, FALSE, TRUE, TRUE>>)
}

CalendarEntries == {
    \* "0 12 29 2 *"
    CronEntry(<<0>>, <<12>>, <<29>>, <<2>>, AllDaysOfWeek,
              <<FALSE, FALSE, FALSE, TRUE>>),
    \* "0 12 31 * *"
    CronEntry(<<0>>, <<12>>, <<31>>, AllMonths, AllDaysOfWeek,
              <<FALSE, FALSE, FALSE, TRUE>>),
    \* "0 13 */999 1,4,7,10 3"
    CronEntry(<<0>>, <<13>>, <<1>>, <<1, 4, 7, 10>>, <<3>>,
              <<FALSE, FALSE, TRUE, FALSE>>),
    \* "0 0 13 * 5"
    CronEntry(<<0>>, <<0>>, <<13>>, AllMonths, <<5>>,
              <<FALSE, FALSE, FALSE, FALSE>>),
    \* "59 23 31 12 *"
    CronEntry(<<59>>, <<23>>, <<31>>, <<12>>, AllDaysOfWeek,
              <<FALSE, FALSE, FALSE, TRUE>>),
    \* "30 4,22 * 3,11 7"
    CronEntry(<<30>>, <<4, 22>>, AllDays, <<3, 11>>, <<7>>,
              <<FALSE, FALSE, TRUE, FALSE>>),
    \* "*/25 */9 30 2 1-2"
    CronEntry(<<0, 25, 50>>, <<0, 9, 18>>, <<30>>, <<2>>, <<1, 2>>,
              <<TRUE, TRUE, FALSE, FALSE>>),
    \* "0 0 31 2,4 *": rejected by has_triggers
    CronEntry(<<0>>, <<0>>, <<31>>, <<2, 4>>, AllDaysOfWeek,
              <<FALSE, FALSE, FALSE, TRUE>>)
}

\* the schedules a successful parse can hand to the search and to the iterator
Entries == {e \in WildcardEntries \cup FixedEntries \cup CalendarEntries : has_triggers(e)}

IterEntries == {e \in WildcardEntries \cup FixedEntries : has_triggers(e)}

\* ZoneInfo('America/New_York'), 2023
TZ_NY ==
    [name |-> "America/New_York", base |-> -300,
     trans |-> << Transition(DateTime(2023, 3, 12, 2, 0), DateTime(2023, 3, 12, 3, 0), -300, -240),
                  Transition(DateTime(2023, 11, 5, 1, 0), DateTime(2023, 11, 5, 2, 0), -240, -300) >>]

\* ZoneInfo('Europe/Riga'), 2023
TZ_RIGA ==
    [name |-> "Europe/Riga", base |-> 120,
     trans |-> << Transition(DateTime(2023, 3, 26, 3, 0), DateTime(2023, 3, 26, 4, 0), 120, 180),
                  Transition(DateTime(2023, 10, 29, 3, 0), DateTime(2023, 10, 29, 4, 0), 180, 120) >>]

\* ZoneInfo('Australia/Lord_Howe'), 2023: half hour clock change
TZ_LH ==
    [name |-> "Australia/Lord_Howe", base |-> 660,
     trans |-> << Transition(DateTime(2023, 4, 2, 1, 30), DateTime(2023, 4, 2, 2, 0), 660, 630),
                  Transition(DateTime(2023, 10, 1, 2, 0), DateTime(2023, 10, 1, 2, 30), 630, 660) >>]

\* ZoneInfo('Antarctica/Troll'), 2023: two-hour clock change, 01:00 -> 03:00
\* on 26 March and 03:00 -> 01:00 on 29 October
TZ_TROLL ==
    [name |-> "Antarctica/Troll", base |-> 0,
     trans |-> << Transition(DateTime(2023, 3, 26, 1, 0), DateTime(2023, 3, 26, 3, 0), 0, 120),
                  Transition(DateTime(2023, 10, 29, 1, 0), DateTime(2023, 10, 29, 3, 0), 120, 0) >>]

\* dt.timezone.utc
TZ_UTC == [name |-> "UTC", base |-> 0, trans |-> <<>>]

Zones == {TZ_NY, TZ_RIGA, TZ_LH, TZ_TROLL, TZ_UTC}

ProbeMinutes == {0, 29, 30, 59}

\* the seconds part and the fold tag of a start: whole minute or not, either fold
Tags == {<<0, 0>>, <<1, 0>>, <<0, 1>>}

\* start datetimes around the transitions of a zone; without transitions,
\* around the end of a year and of the last year of the calendar
Starts(zone) ==
    IF zone.trans = <<>>
    THEN {[DateTime(y, 12, 31, 23, mi) EXCEPT !.sub = t[1], !.fold = t[2]] :
              y \in {2023, 9999}, mi \in {58, 59}, t \in Tags}
    ELSE UNION {
           {[DateTime(zone.trans[i].lo.year, zone.trans[i].lo.month,
                      zone.trans[i].lo.day, h, mi) EXCEPT !.sub = t[1], !.fold = t[2]] :
                h \in (zone.trans[i].lo.hour - 1)..zone.trans[i].hi.hour,
                mi \in ProbeMinutes, t \in Tags} :
           i \in 1..Len(zone.trans)}

\* the (start, max_years_between_matches) arguments of iter: the default
\* budget from every start, a zero and a negative budget from the whole-hour
\* starts and from the starts at the end of a year
IterArgs(zone) ==
    {<<st, MAX_YEARS_BETWEEN_MATCHES>> : st \in Starts(zone)}
    \cup {<<st, b>> : st \in {x \in Starts(zone) :
                                  (x.minute = 0 \/ zone.trans = <<>>) /\ x.sub = 0},
                      b \in {0, -1}}

\* how many values the consumer pulls: an every-minute schedule started one
\* minute before a transition window is followed through the whole window
PullsFor(zone, e, st, max_years) ==
    IF /\ e.minutes = AllMinutes
       /\ max_years > 0
       /\ st.minute = 59 /\ st.sub = 0 /\ st.fold = 0
       /\ \E i \in 1..Len(zone.trans) :
              /\ DateKey(st) = DateKey(zone.trans[i].lo)
              /\ st.hour = zone.trans[i].lo.hour - 1
    THEN LongPulls
    ELSE MaxPulls

SearchBudgets == {0, 1, MAX_YEARS_BETWEEN_MATCHES}

\* start datetimes of the search: month ends, a leap day, the year's end
SearchStarts ==
    {[DateTime(y, md[1], md[2], h, mi) EXCEPT !.sub = s] :
        y \in {2023, 2024},
        md \in {<<1, 31>>, <<2, 28>>, <<3, 1>>, <<4, 30>>, <<11, 5>>, <<12, 31>>},
        h \in {0, 12, 23}, mi \in {0, 30, 59}, s \in {0, 1}}
    \cup {DateTime(2024, 2, 29, h, mi) : h \in {0, 12, 23}, mi \in {0, 59}}

(***************************************************************************)
(* Inputs of the parser: expressions built from field texts, and           *)
(* expressions whose length or number of fields is at the limits.          *)
(***************************************************************************)
\* texts of the minute field
MinuteTexts == {
    <<"*">>,    \* *
    <<"*", "/", "3", "0">>,    \* */30
    <<"0", "-", "5", "9">>,    \* 0-59
    <<"*", ",", "5">>,    \* *,5
    <<"5", ",", "*">>,    \* 5,*
    <<"0">>,    \* 0
    <<"6", "0">>    \* 60
}

\* texts of the hour field
HourTexts == {
    <<"*">>,    \* *
    <<"0", "-", "2", "3">>,    \* 0-23
    <<"*", "/", "2">>,    \* */2
    <<"6", ",", "*", "/", "1">>    \* 6,*/1
}

\* texts of the day-of-month field
DayTexts == {
    <<"*">>,    \* *
    <<"*", "/", "9", "9", "9">>,    \* */999
    <<"1", "3">>,    \* 13
    <<"2", "9">>,    \* 29
    <<"3", "0">>,    \* 30
    <<"3", "1">>,    \* 31
    <<"1", ",", "3", "0">>,    \* 1,30
    <<"1", "-", "3", "1">>    \* 1-31
}

\* texts of the month field
MonthTexts == {
    <<"*">>,    \* *
    <<"2">>,    \* 2
    <<"4">>,    \* 4
    <<"2", ",", "4">>,    \* 2,4
    <<"2", ",", "3">>,    \* 2,3
    <<"f", "e", "b">>,    \* feb
    <<"1", ",", "4", ",", "7", ",", "1", "0">>    \* 1,4,7,10
}

\* texts of the day-of-week field
DayOfWeekTexts == {
    <<"*">>,    \* *
    <<"*", "/", "1">>,    \* */1
    <<"6", ",", "*", "/", "1">>,    \* 6,*/1
    <<"3">>,    \* 3
    <<"7">>,    \* 7
    <<"s", "u", "n">>    \* sun
}

Star == <<"*">>

Word(text) == [word |-> text]

Whitespace(n) == [ws |-> n]

\* the words joined by whitespace runs of gap characters, after lead and
\* before trail characters of whitespace (no run when the count is 0)
RECURSIVE Joined(_, _)
Joined(words, gap) ==
    IF words = <<>> THEN <<>>
    ELSE IF Len(words) = 1 THEN <<Word(words[1])>>
    ELSE <<Word(words[1]), Whitespace(gap)>> \o Joined(Tail(words), gap)

Expression(lead, words, gap, trail) ==
    (IF lead > 0 THEN <<Whitespace(lead)>> ELSE <<>>)
    \o Joined(words, gap)
    \o (IF trail > 0 THEN <<Whitespace(trail)>> ELSE <<>>)

\* expressions that vary the minute and hour fields, and expressions that
\* vary the day-of-month, month and day-of-week fields
FieldExpressions ==
    {Expression(0, <<mi, h, Star, Star, Star>>, 1, 0) : mi \in MinuteTexts, h \in HourTexts}
    \cup {Expression(0, <<<<"0">>, <<"0">>, d, mo, dw>>, 1, 0) :
              d \in DayTexts, mo \in MonthTexts, dw \in DayOfWeekTexts}

\* `* * * * *` is 9 characters long: padded to one below, exactly at and one
\* above MAX_EXPRESSION_LENGTH, before, between or after the fields
PaddedExpressions ==
    {Expression(0, <<Star, Star, Star, Star, Star>>, 1, n - 9) :
         n \in (MAX_EXPRESSION_LENGTH - 1)..(MAX_EXPRESSION_LENGTH + 1)}
    \cup {Expression(n - 9, <<Star, Star, Star, Star, Star>>, 1, 0) :
              n \in (MAX_EXPRESSION_LENGTH - 1)..(MAX_EXPRESSION_LENGTH + 1)}
    \cup {Expression(1, <<Star, Star, Star, Star, Star>>, 2, 1)}

\* expressions that fail another check, short and padded beyond the limit
BrokenExpressions ==
    {Expression(0, words, 1, trail) :
         words \in { <<>>,
                     <<Star, Star, Star, Star>>,
                     <<Star, Star, Star, Star, Star, Star>>,
                     <<<<"6", "0">>, Star, Star, Star, Star>>,
                     <<Star, Star, <<"3", "1">>, <<"2">>, Star>> },
         trail \in {0, 9, MAX_EXPRESSION_LENGTH}}

(***************************************************************************)
(* Inputs of the parser: one token as one field of an otherwise `*`        *)
(* expression.                                                             *)
(***************************************************************************)
DigitText == <<"0", "1", "2", "3", "4", "5", "6", "7", "8", "9">>

\* tokens with numbers, ranges, steps and lists
StepTokens == {
    <<"*", "/", "2", "0">>, <<"*", "/", "2", "1">>, <<"*", "/", "6", "0">>,    \* */20  */21  */60
    <<"*", "/", "9", "9", "9">>, <<"2", "-", "3", "/", "1">>, <<"2", "-", "1", "0", "/", "4">>,    \* */999  2-3/1  2-10/4
    <<"2", "-", "1", "0", "/", "5">>, <<"2", "-", "1", "0", "/", "8">>, <<"2", "-", "1", "0", "/", "9">>,    \* 2-10/5  2-10/8  2-10/9
    <<"0", "/", "1", "5">>, <<"3", "/", "1">>, <<"3", "/", "5">>,    \* 0/15  3/1  3/5
    <<"3", "-", "7", "/", "5">>, <<"1", "/", "9", "9", "9">>, <<"5">>,    \* 3-7/5  1/999  5
    <<"1", ",", "3", "-", "5", ",", "*", "/", "2", "0">>, <<"2", "-", "4", ",", "3", "-", "6">>, <<"5", ",", "5", ",", "1", "-", "1">>,    \* 1,3-5,*/20  2-4,3-6  5,5,1-1
    <<"4", "/", "2", ",", "1">>    \* 4/2,1
}

\* tokens that are malformed in some or in every field, and tokens with
\* names, signs and separators
MalformedTokens == {
    <<"a">>, <<"j", "a", "n">>, <<"1", "j", "a", "n">>,    \* a  jan  1jan
    <<"m", "o", "n">>, <<"1", "m", "o", "n">>, <<"J", "A", "N">>,    \* mon  1mon  JAN
    <<"-">>, <<"*", "*">>, <<"*", "-", "*">>,    \* -  **  *-*
    <<"*", ",", "*">>, <<"*", "5">>, <<"5", "*">>,    \* *,*  *5  5*
    <<"*", "-", "5">>, <<",">>, <<",", ",">>,    \* *-5  ,  ,,
    <<"1", ",">>, <<",", "1">>, <<"1", ",", ",", "2">>,    \* 1,  ,1  1,,2
    <<"1", "/">>, <<"1", "/", "/", "1">>, <<"1", "/", "j", "a", "n">>,    \* 1/  1//1  1/jan
    <<"1", "/", "m", "o", "n">>, <<"1", "/", "a">>, <<"1", "/", "-", "1">>,    \* 1/mon  1/a  1/-1
    <<"1", "/", "0">>, <<"*", "/", "0">>, <<"*", "/">>,    \* 1/0  */0  */
    <<"*", "/", "-", "2">>, <<"/", "2">>, <<"1", "/", "1", ".", "5">>,    \* */-2  /2  1/1.5
    <<"5", "-", "3">>, <<"1", "-", "2", "-", "3">>, <<"1", "-", "-", "2">>,    \* 5-3  1-2-3  1--2
    <<"1", "-">>, <<"1", "-", "a">>, <<"j", "a", "n", "-", "m", "a", "r">>,    \* 1-  1-a  jan-mar
    <<"m", "o", "n", "-", "f", "r", "i">>, <<"f", "e", "b", "/", "2">>, <<"+", "5">>,    \* mon-fri  feb/2  +5
    <<"1", "_", "0">>, <<"1", "/", "+", "2">>    \* 1_0  1/+2
}

\* expressions with several bad fields
SeveralBadWords == {
    <<<<"a">>, <<"b">>, <<"*">>, <<"*">>, <<"*">>>>,    \* a b * * *
    <<<<"*">>, <<"a">>, <<"*">>, <<"b">>, <<"*">>>>,    \* * a * b *
    <<<<"*">>, <<"*">>, <<"a">>, <<"*">>, <<"b">>>>,    \* * * a * b
    <<<<"*">>, <<"*">>, <<"*">>, <<"a">>, <<"b">>>>,    \* * * * a b
    <<<<"6", "0">>, <<"2", "4">>, <<"3", "2">>, <<"1", "3">>, <<"8">>>>,    \* 60 24 32 13 8
    <<<<"*">>, <<"2", "4">>, <<"0">>, <<"*">>, <<"8">>>>,    \* * 24 0 * 8
    <<<<"*">>, <<"*">>, <<"5", "-", "3">>, <<"1", "/", "0">>, <<"*", "*">>>>,    \* * * 5-3 1/0 **
    <<<<"0">>, <<"0">>, <<"3", "1">>, <<"2">>, <<"a">>>>,    \* 0 0 31 2 a
    <<<<"0">>, <<"0">>, <<"3", "1">>, <<"a">>, <<"*">>>>    \* 0 0 31 a *
}

\* str(n) for the numbers next to the bounds
RECURSIVE NumberText(_)
NumberText(n) ==
    IF n < 0 THEN <<"-">> \o NumberText(0 - n)
    ELSE IF n < 10 THEN <<DigitText[n + 1]>>
    ELSE NumberText(n \div 10) \o <<DigitText[(n % 10) + 1]>>

\* f"{a}-{b}"
RangeText(a, b) == NumberText(a) \o <<"-">> \o NumberText(b)

\* the single values and the ranges at and next to the bounds of field idx
BoundTokens(idx) ==
    LET lower == FIELD_BOUNDS[idx][1]
        upper == FIELD_BOUNDS[idx][2]
    IN  {NumberText(n) : n \in {lower - 1, lower, upper, upper + 1}}
        \cup {RangeText(a, b) : a \in {lower - 1, lower, upper},
                                b \in {lower, upper, upper + 1}}

\* `3-{upper}/5`: the range that `3/5` abbreviates in field idx
ShorthandTokens(idx) == {RangeText(3, FIELD_BOUNDS[idx][2]) \o <<"/", "5">>}

\* ` *` * index + token + ` *` * (4 - index): the token as field idx among `*`
FieldCase(idx, token) ==
    Expression(0, [k \in 1..5 |-> IF k = idx THEN token ELSE Star], 1, 0)

TokenExpressions ==
    {FieldCase(idx, token) : idx \in 1..5, token \in StepTokens \cup MalformedTokens}
    \cup UNION {{FieldCase(idx, token) : token \in BoundTokens(idx) \cup ShorthandTokens(idx)} :
                   idx \in 1..5}
    \cup {Expression(0, words, 1, 0) : words \in SeveralBadWords}

ParseInputs ==
    FieldExpressions \cup PaddedExpressions \cup BrokenExpressions \cup TokenExpressions

(***************************************************************************)
(* CronDst.iter: one pass of the `while True` loop, from the cursor        *)
(* (start, monotonic_datetime, goto_datetime).                             *)
(***************************************************************************)
\* start.replace(minute=0, second=0, microsecond=0)
HourOf(d) == [d EXCEPT !.minute = 0, !.sub = 0]

\* d + timedelta(seconds=s), s a whole number of minutes
AddSeconds(d, s) == AddMinutes(d, FloorDiv(s, 60))

\* variant of NormalizedStart that keeps the seconds of the start
NormalizedStartKeepsSeconds(zone, st) == fromtimestamp(zone, st)

\* start = fromtimestamp(start.timestamp(), tz).replace(second=0, microsecond=0)
NormalizedStart(zone, st) == [fromtimestamp(zone, st) EXCEPT !.sub = 0]

\* variant of StartAfterAmbiguous without the fast-forward of fixed-time jobs
StartKeptInAmbiguous(e, st, delta_seconds) == st

\* the cursor after "handle starting or landing in ambiguous time";
\* delta_seconds = _delta_seconds_between_fold(start)
\* variant of StartAfterAmbiguous that goes to the end of the hour before
StartBeforeAmbiguousHour(e, st, delta_seconds) ==
    IF delta_seconds < 0 /\ ~is_wildcard(e) /\ st.fold > 0
    THEN MinusOneMicrosecond(HourOf(st))
    ELSE st

StartAfterAmbiguous(e, st, delta_seconds) ==
    IF delta_seconds < 0 /\ ~is_wildcard(e) /\ st.fold > 0
    THEN MinusOneMicrosecond(AddMinutes(HourOf(st), 60))
    ELSE st

\* the condition under which that block sets goto_datetime
GotoArmedNow(e, st, goto, delta_seconds) ==
    delta_seconds < 0 /\ is_wildcard(e) /\ st.fold <= 0 /\ goto = None

GotoAfterAmbiguous(e, st, goto, delta_seconds) ==
    IF GotoArmedNow(e, st, goto, delta_seconds)
    THEN [AddSeconds(AddMinutes(HourOf(st), 60), delta_seconds) EXCEPT !.fold = 1]
    ELSE goto

\* variant of FoldedResult that never relabels the result to the later fold
FoldedResultKept(zone, result, mono) == result

\* if result.timestamp() <= monotonic_datetime.timestamp(): result.replace(fold=1)
FoldedResult(zone, result, mono) ==
    IF TsDiff(zone, result, mono) <= 0 THEN [result EXCEPT !.fold = 1] ELSE result

\* variant of InMissingTime that takes every result for a missing time
InMissingTimeAlways(zone, result) == TRUE

\* "handle landing in missing time": delta_seconds > 0
InMissingTime(zone, result) == _delta_seconds_between_fold(zone, result) > 0

\* variant of SnappedResult that leaves a result in missing time where it is
SnappedResultKept(zone, result) == result

\* result.replace(minute=0, ...) + timedelta(seconds=delta_seconds) in missing time
SnappedResult(zone, result) ==
    Bind(_delta_seconds_between_fold(zone, result), LAMBDA delta_seconds :
        IF delta_seconds > 0
        THEN AddSeconds(HourOf(result), delta_seconds)
        ELSE result)

\* variant of GotoReached in which the prepared jump is never taken
GotoNeverReached(zone, result, goto) == FALSE

\* if goto_datetime and result.timestamp() >= goto_datetime.timestamp()
GotoReached(zone, result, goto) ==
    /\ goto # None
    /\ TsDiff(zone, result, goto) >= 0

\* the branch a pass ends in and the cursor it leaves, from the values of the
\* pass's locals after the search
PassOutcome(zone, e, start1, goto1, armedNow, result, mono) ==
    IF result = None
    THEN [branch |-> "return", start |-> start1, goto |-> goto1,
          result |-> None, searched |-> None, armedNow |-> armedNow]
    ELSE IF IsRaised(result)
    THEN [branch |-> "raise", start |-> start1, goto |-> goto1,
          result |-> result, searched |-> None, armedNow |-> armedNow]
    ELSE Bind(FoldedResult(zone, result, mono), LAMBDA folded :
         Bind(SnappedResult(zone, folded), LAMBDA snapped :
           IF InMissingTime(zone, folded) /\ is_wildcard(e)
           THEN [branch |-> "skip", start |-> MinusOneMicrosecond(snapped),
                 goto |-> goto1, result |-> snapped, searched |-> result,
                 armedNow |-> armedNow]
           ELSE IF GotoReached(zone, snapped, goto1)
           THEN [branch |-> "goto", start |-> MinusOneMicrosecond(goto1),
                 goto |-> None, result |-> snapped, searched |-> result,
                 armedNow |-> armedNow]
           ELSE [branch |-> "yield", start |-> snapped, goto |-> goto1,
                 result |-> snapped, searched |-> result, armedNow |-> armedNow]))

\* one pass of the loop body
LoopPass(zone, e, max_years, st, mono, goto) ==
    Bind(_delta_seconds_between_fold(zone, st), LAMBDA delta_seconds :
    Bind(StartAfterAmbiguous(e, st, delta_seconds), LAMBDA start1 :
    Bind(GotoAfterAmbiguous(e, st, goto, delta_seconds), LAMBDA goto1 :
    Bind(_next_wallclock_datetime(start1, e, max_years), LAMBDA result :
        PassOutcome(zone, e, start1, goto1,
                    GotoArmedNow(e, st, goto, delta_seconds), result, mono)))))

ThisPass == LoopPass(tz, entry, budget, start, monotonic_datetime, goto_datetime)

Running == pc = "loop" /\ Len(emitted) < pulls /\ passes < MaxPasses

\* if result is None: return
IterReturn ==
    /\ Running
    /\ \E p \in {ThisPass} :
           /\ p.branch = "return"
           /\ pc' = "done"
           /\ start' = p.start
           /\ goto_datetime' = p.goto
           /\ armed' = armed + (IF p.armedNow THEN 1 ELSE 0)
           /\ wresult' = p.searched
    /\ passes' = passes + 1
    /\ UNCHANGED <<expression, raised, entry, tz, budget, given, pulls, monotonic_datetime, emitted>>

\* landing in missing time, wildcard job: start = result - 1us; continue
IterSkipMissing ==
    /\ Running
    /\ \E p \in {ThisPass} :
           /\ p.branch = "skip"
           /\ start' = p.start
           /\ goto_datetime' = p.goto
           /\ armed' = armed + (IF p.armedNow THEN 1 ELSE 0)
           /\ wresult' = p.searched
    /\ passes' = passes + 1
    /\ UNCHANGED <<expression, raised, entry, tz, budget, given, pulls, monotonic_datetime, pc, emitted>>

\* the prepared jump back: start = goto_datetime - 1us; goto_datetime = None; continue
IterGoto ==
    /\ Running
    /\ \E p \in {ThisPass} :
           /\ p.branch = "goto"
           /\ start' = p.start
           /\ goto_datetime' = p.goto
           /\ armed' = armed + (IF p.armedNow THEN 1 ELSE 0)
           /\ wresult' = p.searched
    /\ passes' = passes + 1
    /\ UNCHANGED <<expression, raised, entry, tz, budget, given, pulls, monotonic_datetime, pc, emitted>>

\* yield result; start = result; monotonic_datetime = result
IterYield ==
    /\ Running
    /\ \E p \in {ThisPass} :
           /\ p.branch = "yield"
           /\ emitted' = Append(emitted, p.result)
           /\ start' = p.start
           /\ monotonic_datetime' = p.result
           /\ goto_datetime' = p.goto
           /\ armed' = armed + (IF p.armedNow THEN 1 ELSE 0)
           /\ wresult' = p.searched
    /\ passes' = 0
    /\ UNCHANGED <<expression, raised, entry, tz, budget, given, pulls, pc>>

\* the search raises: the exception leaves the generator, which is finished
IterRaise ==
    /\ Running
    /\ \E p \in {ThisPass} :
           /\ p.branch = "raise"
           /\ pc' = "raised"
           /\ raised' = p.result
           /\ start' = p.start
           /\ goto_datetime' = p.goto
           /\ armed' = armed + (IF p.armedNow THEN 1 ELSE 0)
    /\ passes' = passes + 1
    /\ UNCHANGED <<expression, entry, tz, budget, given, pulls, monotonic_datetime, emitted,
                   wresult>>

Init ==
    /\ entry \in IterEntries
    /\ tz \in Zones
    /\ \E a \in IterArgs(tz) : given = a[1] /\ budget = a[2]
    /\ pulls = PullsFor(tz, entry, given, budget)
    /\ start = NormalizedStart(tz, given)
    /\ monotonic_datetime = NormalizedStart(tz, given)
    /\ goto_datetime = None
    /\ pc = "loop"
    /\ emitted = <<>>
    /\ passes = 0
    /\ armed = 0
    /\ wresult = None
    /\ expression = <<>>
    /\ raised = None

Next == IterReturn \/ IterSkipMissing \/ IterGoto \/ IterYield \/ IterRaise

Spec == Init /\ [][Next]_vars

(***************************************************************************)
(* SpecLive: the iterator with its scheduling.  A pull runs the body of    *)
(* `while True` until it yields, returns or raises, so a pass that can be  *)
(* taken is taken.                                                         *)
(***************************************************************************)
SpecLive == Init /\ [][Next]_vars /\ WF_vars(Next)

(***************************************************************************)
(* SpecSearch: _next_wallclock_datetime alone, on naive datetimes, called  *)
(* again from each value it returns.                                       *)
(***************************************************************************)
InitSearch ==
    /\ entry \in Entries
    /\ tz = TZ_UTC
    /\ budget \in SearchBudgets
    /\ given \in SearchStarts
    /\ pulls = 0
    /\ start = given
    /\ monotonic_datetime = given
    /\ goto_datetime = None
    /\ pc = "call"
    /\ emitted = <<>>
    /\ passes = 0
    /\ armed = 0
    /\ wresult = None
    /\ expression = <<>>
    /\ raised = None

WallclockCall ==
    /\ pc = "call"
    /\ wresult' = _next_wallclock_datetime(start, entry, budget)
    /\ pc' = "ret"
    /\ passes' = passes + 1
    /\ UNCHANGED <<expression, raised, entry, tz, budget, given, pulls, start, monotonic_datetime,
                   goto_datetime, emitted, armed>>

WallclockAgain ==
    /\ pc = "ret"
    /\ wresult # None
    /\ passes < MaxCalls
    /\ start' = wresult
    /\ pc' = "call"
    /\ UNCHANGED <<expression, raised, entry, tz, budget, given, pulls, monotonic_datetime, goto_datetime,
                   emitted, passes, armed, wresult>>

NextSearch == WallclockCall \/ WallclockAgain

SpecSearch == InitSearch /\ [][NextSearch]_vars

(***************************************************************************)
(* SpecParse: _CronEntry.from_expression alone, called once on an          *)
(* expression.                                                             *)
(***************************************************************************)
InitParse ==
    /\ expression \in ParseInputs
    /\ entry = None
    /\ raised = None
    /\ tz = TZ_UTC
    /\ budget = MAX_YEARS_BETWEEN_MATCHES
    /\ given = None
    /\ pulls = 0
    /\ start = None
    /\ monotonic_datetime = None
    /\ goto_datetime = None
    /\ pc = "parse"
    /\ emitted = <<>>
    /\ passes = 0
    /\ armed = 0
    /\ wresult = None

\* return entry
FromExpressionReturn ==
    /\ pc = "parse"
    /\ \E out \in {from_expression(expression)} :
           /\ out.raised = None
           /\ entry' = out.entry
           /\ raised' = None
    /\ pc' = "parsed"
    /\ UNCHANGED <<expression, tz, budget, given, pulls, start, monotonic_datetime,
                   goto_datetime, emitted, passes, armed, wresult>>

\* raise CronDstError(...)
FromExpressionRaise ==
    /\ pc = "parse"
    /\ \E out \in {from_expression(expression)} :
           /\ out.raised # None
           /\ entry' = None
           /\ raised' = out.raised
    /\ pc' = "raised"
    /\ UNCHANGED <<expression, tz, budget, given, pulls, start, monotonic_datetime,
                   goto_datetime, emitted, passes, armed, wresult>>

NextParse == FromExpressionReturn \/ FromExpressionRaise

SpecParse == InitParse /\ [][NextParse]_vars

(***************************************************************************)
(* SpecMerge: merge_days_and_days_of_week alone, for the month of a given  *)
(* datetime.                                                               *)
(***************************************************************************)
\* years with and without a leap day, the century years 1900 and 2000 included
MergeYears == {1900, 2000, 2023, 2024}

InitMerge ==
    /\ entry \in Entries
    /\ tz = TZ_UTC
    /\ budget = MAX_YEARS_BETWEEN_MATCHES
    /\ given \in {DateTime(y, mo, d, 0, 0) : y \in MergeYears, mo \in 1..12, d \in {1, 28}}
    /\ pulls = 0
    /\ start = given
    /\ monotonic_datetime = given
    /\ goto_datetime = None
    /\ pc = "call"
    /\ emitted = <<>>
    /\ passes = 0
    /\ armed = 0
    /\ wresult = None
    /\ expression = <<>>
    /\ raised = None

MergeCall ==
    /\ pc = "call"
    /\ wresult' = merge_days_and_days_of_week(entry, start)
    /\ pc' = "ret"
    /\ passes' = passes + 1
    /\ UNCHANGED <<expression, raised, entry, tz, budget, given, pulls, start, monotonic_datetime,
                   goto_datetime, emitted, armed>>

NextMerge == MergeCall

SpecMerge == InitMerge /\ [][NextMerge]_vars

(***************************************************************************)
(* SpecPair: two iterations over one CronDst object, their loop passes     *)
(* interleaved in any order.  start, monotonic_datetime and goto_datetime  *)
(* are locals of each generator; self.entry and the zone are shared.  The  *)
(* variables of a generator are the components of pairs here.              *)
(***************************************************************************)
PairPulls == 3      \* values pulled from each of the two iterations

\* start datetimes of the two iterations: the minute before the hour of each
\* transition; without transitions, the end of a year and of the calendar
PairStarts(zone) ==
    IF zone.trans = <<>>
    THEN {DateTime(2023, 12, 31, 23, 59), DateTime(9999, 12, 31, 23, 58)}
    ELSE {DateTime(zone.trans[i].lo.year, zone.trans[i].lo.month, zone.trans[i].lo.day,
                   zone.trans[i].lo.hour - 1, 59) : i \in 1..Len(zone.trans)}

\* variant of Own: the assignment goes to a variable both generators use
Shared(locals, i, value) == [k \in DOMAIN locals |-> value]

\* an assignment to a local variable of generator i
Own(locals, i, value) == [locals EXCEPT ![i] = value]

InitPair ==
    /\ entry \in IterEntries
    /\ tz \in Zones
    /\ budget \in {MAX_YEARS_BETWEEN_MATCHES, 0}
    /\ given \in PairStarts(tz) \X PairStarts(tz)
    /\ pulls = PairPulls
    /\ start = [i \in 1..2 |-> NormalizedStart(tz, given[i])]
    /\ monotonic_datetime = [i \in 1..2 |-> NormalizedStart(tz, given[i])]
    /\ goto_datetime = <<None, None>>
    /\ pc = <<"loop", "loop">>
    /\ emitted = << <<>>, <<>> >>
    /\ passes = <<0, 0>>
    /\ armed = 0
    /\ wresult = None
    /\ expression = <<>>
    /\ raised = <<None, None>>

\* generator i is in its loop and is asked for a further value
PairRunning(i) == pc[i] = "loop" /\ Len(emitted[i]) < pulls /\ passes[i] < MaxPasses

\* the pass generator i makes from its own cursor
PairThisPass(i) ==
    LoopPass(tz, entry, budget, start[i], monotonic_datetime[i], goto_datetime[i])

\* the assignments of a pass p of generator i that emits nothing
PairContinue(i, p) ==
    /\ start' = Own(start, i, p.start)
    /\ goto_datetime' = Own(goto_datetime, i, p.goto)
    /\ passes' = Own(passes, i, passes[i] + 1)
    /\ UNCHANGED <<emitted, monotonic_datetime, expression, entry, tz, budget,
                   given, pulls, armed, wresult>>

PairReturn ==
    \E i \in 1..2 : \E p \in {PairThisPass(i)} :
        /\ PairRunning(i)
        /\ p.branch = "return"
        /\ pc' = Own(pc, i, "done")
        /\ PairContinue(i, p)
        /\ UNCHANGED raised

PairSkipMissing ==
    \E i \in 1..2 : \E p \in {PairThisPass(i)} :
        /\ PairRunning(i)
        /\ p.branch = "skip"
        /\ PairContinue(i, p)
        /\ UNCHANGED <<pc, raised>>

PairGoto ==
    \E i \in 1..2 : \E p \in {PairThisPass(i)} :
        /\ PairRunning(i)
        /\ p.branch = "goto"
        /\ PairContinue(i, p)
        /\ UNCHANGED <<pc, raised>>

PairYield ==
    \E i \in 1..2 : \E p \in {PairThisPass(i)} :
        /\ PairRunning(i)
        /\ p.branch = "yield"
        /\ emitted' = Own(emitted, i, Append(emitted[i], p.result))
        /\ start' = Own(start, i, p.start)
        /\ monotonic_datetime' = Own(monotonic_datetime, i, p.result)
        /\ goto_datetime' = Own(goto_datetime, i, p.goto)
        /\ passes' = Own(passes, i, 0)
        /\ UNCHANGED <<pc, raised, expression, entry, tz, budget, given, pulls,
                       armed, wresult>>

PairRaise ==
    \E i \in 1..2 : \E p \in {PairThisPass(i)} :
        /\ PairRunning(i)
        /\ p.branch = "raise"
        /\ pc' = Own(pc, i, "raised")
        /\ raised' = Own(raised, i, p.result)
        /\ PairContinue(i, p)

NextPair == PairReturn \/ PairSkipMissing \/ PairGoto \/ PairYield \/ PairRaise

SpecPair == InitPair /\ [][NextPair]_vars

(***************************************************************************)
(* Properties.  The definitions below state the schedule directly from    *)
(* the five fields (with the merged day list of the month), not through    *)
(* the stages of the search.                                               *)
(***************************************************************************)
Min(a, b) == IF a <= b THEN a ELSE b

\* d satisfies the minute, hour and month fields, and its day is in the merged
\* day list of its own year and month
SatisfiesFields(e, d) ==
    /\ d.minute \in SeqToSet(e.minutes)
    /\ d.hour \in SeqToSet(e.hours)
    /\ d.month \in SeqToSet(e.months)
    /\ d.day \in SeqToSet(merge_days_and_days_of_week(e, d))

\* the civil minute y-mo-day h:mi lies strictly between a and b
StrictlyBetween(a, b, dk, h, mi) ==
    /\ DateKey(a) < dk \/ (DateKey(a) = dk /\ TimeKey(a) < (h * 60 + mi) * 2)
    /\ dk < DateKey(b) \/ (dk = DateKey(b) /\ (h * 60 + mi) * 2 < TimeKey(b))

\* no civil minute of month y-mo that satisfies the day, hour and minute fields
\* lies strictly between a and b (days and hours outside [a, b] are passed over)
NoMatchBetweenInMonth(e, a, b, y, mo) ==
    \A day \in SeqToSet(merge_days_and_days_of_week(e, DateTime(y, mo, 1, 0, 0))) :
        \A dk \in {(y * 12 + mo) * 32 + day} :
            (DateKey(a) <= dk /\ dk <= DateKey(b))
            => \A h \in SeqToSet(e.hours) :
                   ((DateKey(a) < dk \/ a.hour <= h) /\ (dk < DateKey(b) \/ h <= b.hour))
                   => \A mi \in SeqToSet(e.minutes) : ~StrictlyBetween(a, b, dk, h, mi)

\* no civil minute strictly between a and b satisfies the five fields
NoMatchBetween(e, a, b) ==
    \A y \in a.year..b.year : \A mo \in SeqToSet(e.months) :
        ((y * 12 + mo) * 32 + 31 >= DateKey(a) /\ (y * 12 + mo) * 32 + 1 <= DateKey(b))
        => NoMatchBetweenInMonth(e, a, b, y, mo)

\* C1: whenever _next_wallclock_datetime returns a timestamp, it is strictly
\* later than start in naive civil time and satisfies all five fields of the
\* schedule (minute, hour, month, and the merged day list of its own month).
C1_ResultLaterAndMatching ==
    (pc = "ret" /\ wresult # None)
        => /\ CivilLess(start, wresult)
           /\ SatisfiesFields(entry, wresult)
           /\ wresult.sub = 0 /\ wresult.fold = 0

\* C1 witness: a search from a start with a seconds part that matched the
\* schedule's minute and hour, answered in a later year on a day selected by
\* the day-of-week field
C1_Witness ==
    /\ pc = "ret" /\ wresult # None
    /\ wresult.year > start.year
    /\ ~entry.day_of_week_star
    /\ start.sub = 1
    /\ start.minute \in SeqToSet(entry.minutes)

\* C2: _next_wallclock_datetime returns the earliest match: no civil minute
\* strictly between start and the returned timestamp satisfies all five fields.
C2_ResultEarliest ==
    (pc = "ret" /\ wresult # None) => NoMatchBetween(entry, start, wresult)

\* C2 witness: a search whose answer crossed a month in which the merged day
\* list was empty (a carry through every stage)
C2_Witness ==
    /\ pc = "ret" /\ wresult # None
    /\ wresult.year = start.year + 1
    /\ merge_days_and_days_of_week(entry, start) = <<>>

(***************************************************************************)
(* The iterator across a clock change.  A transition t of the zone is a    *)
(* backward one (its civil window [lo, hi) is read twice) when             *)
(* t.after < t.before and a forward one (the window never occurs)          *)
(* otherwise.                                                              *)
(***************************************************************************)
IsBackward(t) == t.after < t.before

IsForward(t) == t.after > t.before

\* the civil reading of d lies in the window of t
InWindow(t, d) ==
    /\ DateKey(d) = DateKey(t.lo)
    /\ TimeKey(t.lo) <= TimeKey(d)
    /\ TimeKey(d) < TimeKey(t.hi)

Transitions(zone) == {zone.trans[i] : i \in 1..Len(zone.trans)}

Missing(zone, d) == \E t \in Transitions(zone) : IsForward(t) /\ InWindow(t, d)

\* the schedule is a wildcard one: its minute or its hour field begins with `*`
Wildcard(e) == e.minute_star \/ e.hour_star

MinuteOfDay(d) == d.hour * 60 + d.minute

Truncated(d) == [d EXCEPT !.sub = 0]

\* the civil minutes u of a's date with a <= u < b that satisfy the five
\* fields, in civil order, at fold 0
MatchesIn(e, a, b) ==
    IF \/ MinuteOfDay(b) <= MinuteOfDay(a)
       \/ a.month \notin SeqToSet(e.months)
       \/ a.day \notin SeqToSet(merge_days_and_days_of_week(e, a))
    THEN <<>>
    ELSE SelectSeq([i \in 1..(MinuteOfDay(b) - MinuteOfDay(a)) |->
                       DateTime(a.year, a.month, a.day,
                                (MinuteOfDay(a) + i - 1) \div 60,
                                (MinuteOfDay(a) + i - 1) % 60)],
                   LAMBDA d : /\ d.minute \in SeqToSet(e.minutes)
                              /\ d.hour \in SeqToSet(e.hours))

AtFold(seq, f) ==
    IF seq = <<>> THEN <<>> ELSE [i \in 1..Len(seq) |-> [seq[i] EXCEPT !.fold = f]]

\* the given start is an earlier-fold one on the day of t, before t's window
StartsBefore(t) ==
    /\ given.fold = 0
    /\ DateKey(given) = DateKey(t.lo)
    /\ TimeKey(given) < TimeKey(t.lo)

\* the matches after the given start and before the window of t
BeforeWindow(e, t) == MatchesIn(e, AddMinutes(Truncated(given), 1), t.lo)

\* the matches inside the window of t
InsideWindow(e, t) == MatchesIn(e, t.lo, t.hi)

\* x is the first civil minute after a that satisfies the five fields
FirstMatchAfter(e, a, x) ==
    /\ x.fold = 0 /\ x.sub = 0
    /\ CivilLess(a, x)
    /\ SatisfiesFields(e, x)
    /\ NoMatchBetween(e, a, x)

\* the values emitted so far begin with `expected` (as far as they go) and the
\* value after those is the first match later than `after`
Follows(expected, after) ==
    /\ \A i \in 1..Min(Len(expected), Len(emitted)) : emitted[i] = expected[i]
    /\ Len(emitted) > Len(expected)
           => FirstMatchAfter(entry, after, emitted[Len(expected) + 1])

\* C3: iter truncates the start to its whole minute, every emitted value (the
\* first included) is strictly later in absolute time than the given start, so
\* a start that matches the schedule is never itself emitted.
C3_StartTruncatedFirstLater ==
    /\ monotonic_datetime.sub = 0
    /\ emitted = <<>>
           => /\ TsDiff(tz, monotonic_datetime, Truncated(given)) = 0
              /\ TsDiff(tz, given, monotonic_datetime) = given.sub
    /\ \A i \in 1..Len(emitted) :
           /\ emitted[i].sub = 0
           /\ TsDiff(tz, emitted[i], given) > 0

\* C3 witness: a start with a seconds part inside a minute that matches the
\* schedule; the first value emitted is the next whole minute
C3_Witness ==
    /\ emitted # <<>>
    /\ given.sub = 1
    /\ SatisfiesFields(entry, Truncated(given))
    /\ TsDiff(tz, emitted[1], given) = 1

\* C4: backward transition, wildcard schedule, earlier-fold start before the
\* ambiguous window: the matches before the window, then every match of the
\* window at the earlier fold, then every match of the window again at the
\* later fold from the window's first minute, and then the first match at or
\* after the window's end; nothing duplicated, nothing skipped, and at most
\* one pass of the loop (the jump back) goes by without a value.
C4_WildcardBothFolds ==
    \A t \in Transitions(tz) :
        (Wildcard(entry) /\ IsBackward(t) /\ StartsBefore(t))
        => /\ \A inside \in {InsideWindow(entry, t)} :
                  Follows(BeforeWindow(entry, t) \o inside \o AtFold(inside, 1),
                          AddMinutes(t.hi, -1))
           /\ passes <= 1

\* C4 witness: an every-minute wildcard schedule followed from before the
\* window, through both folds of every minute of it, to the window's end
C4_Witness ==
    \E t \in Transitions(tz) :
        /\ Wildcard(entry) /\ IsBackward(t) /\ StartsBefore(t)
        /\ entry.minutes = AllMinutes
        /\ Len(emitted) > Len(BeforeWindow(entry, t)) + 2 * Len(InsideWindow(entry, t))
        /\ Len(InsideWindow(entry, t)) = MinuteOfDay(t.hi) - MinuteOfDay(t.lo)

\* C5: backward transition, fixed-time schedule: a civil time is emitted at
\* most once and never at the later fold; when the start lies in the ambiguous
\* window at the later fold, nothing inside the window is emitted and the
\* first emitted value is at or after the end of the ambiguous hour.
C5_FixedNeverLaterFold ==
    ~Wildcard(entry)
    => /\ \A i \in 1..Len(emitted) : emitted[i].fold = 0
       /\ \A i \in 1..Len(emitted) : \A j \in 1..Len(emitted) :
              i < j => CivilLess(emitted[i], emitted[j])
       /\ \A t \in Transitions(tz) :
              (IsBackward(t) /\ InWindow(t, given) /\ given.fold = 1)
              => \A i \in 1..Len(emitted) :
                     /\ ~InWindow(t, emitted[i])
                     /\ CivilLeq(AddMinutes(HourOf(given), 60), emitted[i])

\* C5 witness: a fixed-time schedule with matches in the window, started inside
\* the window at the later fold, has emitted its first value
C5_Witness ==
    \E t \in Transitions(tz) :
        /\ ~Wildcard(entry)
        /\ IsBackward(t) /\ InWindow(t, given) /\ given.fold = 1
        /\ MatchesIn(entry, AddMinutes(Truncated(given), 1), t.hi) # <<>>
        /\ emitted # <<>>

\* C6 as stated: backward transition, fixed-time schedule, start before the
\* window: every trigger of the window emitted at the earlier fold is emitted
\* once more at the later fold before iteration leaves the window.
C6_FixedOncePerFold ==
    \A t \in Transitions(tz) :
        (~Wildcard(entry) /\ IsBackward(t) /\ StartsBefore(t))
        => \A i \in 1..Len(emitted) :
               (InWindow(t, emitted[i]) /\ emitted[i].fold = 0
                   /\ \E j \in 1..Len(emitted) : CivilLeq(t.hi, emitted[j]))
               => \E j \in 1..Len(emitted) : emitted[j] = [emitted[i] EXCEPT !.fold = 1]

\* C6 amended: backward transition, fixed-time schedule, start before the
\* window: every trigger of the window is emitted exactly once, at the earlier
\* fold, and the value after the window's last trigger is the first match at
\* or after the window's end.
C6_FixedOnceAtEarlierFold ==
    \A t \in Transitions(tz) :
        (~Wildcard(entry) /\ IsBackward(t) /\ StartsBefore(t))
        => /\ Follows(BeforeWindow(entry, t) \o InsideWindow(entry, t),
                      AddMinutes(t.hi, -1))
           /\ passes <= 1

\* C6 witness: a fixed-time schedule with triggers in the window, followed from
\* before the window to the first value after it
C6_Witness ==
    \E t \in Transitions(tz) :
        /\ ~Wildcard(entry) /\ IsBackward(t) /\ StartsBefore(t)
        /\ InsideWindow(entry, t) # <<>>
        /\ Len(emitted) > Len(BeforeWindow(entry, t)) + Len(InsideWindow(entry, t))

\* C7: forward transition, fixed-time schedule: no emitted value has a civil
\* time inside the gap; started before the gap, the matches before the gap are
\* followed by the gap's end, emitted exactly once however many triggers fall
\* inside the gap, and then by the first match after the gap's end.
C7_FixedSnapsToGapEnd ==
    ~Wildcard(entry)
    => /\ \A i \in 1..Len(emitted) : ~Missing(tz, emitted[i])
       /\ \A t \in Transitions(tz) :
              (IsForward(t) /\ StartsBefore(t))
              => /\ IF InsideWindow(entry, t) # <<>>
                    THEN Follows(BeforeWindow(entry, t) \o <<t.hi>>, t.hi)
                    ELSE Follows(BeforeWindow(entry, t), AddMinutes(t.hi, -1))
                 /\ passes <= 1

\* C7 witness: a fixed-time schedule with two or more triggers inside the gap,
\* followed from before the gap to the first value after the gap's end
C7_Witness ==
    \E t \in Transitions(tz) :
        /\ ~Wildcard(entry) /\ IsForward(t) /\ StartsBefore(t)
        /\ Len(InsideWindow(entry, t)) >= 2
        /\ Len(emitted) > Len(BeforeWindow(entry, t)) + 1
        /\ emitted[Len(BeforeWindow(entry, t)) + 1] = t.hi

C9_StrictlyIncreasing ==
    \A i \in 1..(Len(emitted) - 1) : TsDiff(tz, emitted[i + 1], emitted[i]) > 0

\* C9 witness: after the jump back, a value relabelled to the later fold
\* follows an earlier-fold value with a later civil reading
C9_Witness ==
    \E i \in 1..(Len(emitted) - 1) :
        /\ emitted[i].fold = 0 /\ emitted[i + 1].fold = 1
        /\ CivilLess(emitted[i + 1], emitted[i])
        /\ armed > 0

\* the width of the window of t, in minutes
Width(t) == MinuteOfDay(t.hi) - MinuteOfDay(t.lo)

\* C10 as stated: a start inside a gap, whichever its fold tag, is normalized
\* to a realizable civil time not earlier than the gap's end.
C10_NormalizedPastGap ==
    \A t \in Transitions(tz) :
        (IsForward(t) /\ InWindow(t, given) /\ emitted = <<>>)
        => /\ ~Missing(tz, monotonic_datetime)
           /\ CivilLeq(t.hi, monotonic_datetime)

\* C10 amended: a start inside a gap is normalized to the realizable civil
\* time of the same instant: tagged fold 0 it moves forward by the gap's width
\* (to the gap's end or later), tagged fold 1 it moves backward by the gap's
\* width (to before the gap); iteration proceeds from the normalized start.
C10_NormalizedSameInstant ==
    \A t \in Transitions(tz) :
        (IsForward(t) /\ InWindow(t, given))
        => \A norm \in {AddMinutes(Truncated(given),
                                   IF given.fold = 0 THEN Width(t) ELSE 0 - Width(t))} :
               /\ ~Missing(tz, norm)
               /\ TsDiff(tz, norm, Truncated(given)) = 0
               /\ given.fold = 0 => CivilLeq(t.hi, norm)
               /\ given.fold = 1 => CivilLess(norm, t.lo)
               /\ emitted = <<>> => monotonic_datetime = norm
               /\ (emitted = <<>> /\ passes = 0) => start = norm
               /\ emitted # <<>> => CivilLess(norm, emitted[1])

\* C10 witness: a start inside a gap tagged fold 1, normalized to before the
\* gap, from which the first value has been emitted
C10_Witness ==
    \E t \in Transitions(tz) :
        /\ IsForward(t) /\ InWindow(t, given) /\ given.fold = 1
        /\ emitted # <<>>
        /\ CivilLess(emitted[1], t.lo)

(***************************************************************************)
(* The iterator away from clock changes.                                   *)
(***************************************************************************)
\* the schedule `* * * * *`
EveryMinute ==
    CronEntry(AllMinutes, AllHours, AllDays, AllMonths, AllDaysOfWeek,
              <<TRUE, TRUE, TRUE, TRUE>>)

\* no transition window of the zone lies between the given start and d: each
\* window begins after d or ends at or before the given start
SpanClear(zone, d) ==
    \A t \in Transitions(zone) : CivilLess(d, t.lo) \/ CivilLeq(t.hi, given)

\* C11: `* * * * *` yields exactly the consecutive whole minutes after the
\* minute-truncated start, in order, none skipped or repeated, as long as no
\* transition lies in the span; every pass of the loop yields.
C11_EveryMinuteConsecutive ==
    (entry = EveryMinute /\ budget > 0)
    => /\ \A i \in 1..Len(emitted) :
              \A u \in {AddMinutes(Truncated(given), i)} :
                  SpanClear(tz, u) => emitted[i] = u
       /\ \A u \in {AddMinutes(Truncated(given), Len(emitted) + 1)} :
              (SpanClear(tz, u) /\ u.year <= 9999) => pc = "loop" /\ passes = 0

\* C11 witness: `* * * * *` from 23:58:30 on 31 December has yielded 23:59 and
\* then the first minute of the next year
C11_Witness ==
    /\ entry = EveryMinute /\ budget > 0
    /\ tz.trans = <<>>
    /\ given.sub = 1
    /\ Len(emitted) >= 3
    /\ emitted[1].year = given.year
    /\ emitted[2] = DateTime(given.year + 1, 1, 1, 0, 0)

\* the civil reading of d lies in a transition window of the zone: d is an
\* ambiguous or a missing civil time
InSomeWindow(zone, d) == \E t \in Transitions(zone) : InWindow(t, d)

\* a pass of the loop whose cursor and whose search result are both outside
\* every transition window
PlainPass ==
    /\ pc = "loop"
    /\ ~InSomeWindow(tz, start)
    /\ raised' = None
    /\ wresult' # None
    /\ ~InSomeWindow(tz, wresult')

\* such a pass yields the search result as it is, at fold 0, arms no goto and
\* leaves the loop by the yield
PlainPassYieldsSearchResult ==
    PlainPass
    => /\ emitted' = Append(emitted, wresult')
       /\ wresult'.fold = 0
       /\ wresult' = _next_wallclock_datetime(start, entry, budget)
       /\ start' = wresult'
       /\ monotonic_datetime' = wresult'
       /\ armed' = armed
       /\ goto_datetime' = goto_datetime
       /\ passes' = 0

\* in a zone without transitions the k-th emitted value is the search applied
\* to the (k-1)-th, the 0-th being the minute-truncated start
EmittedIsIteratedSearch ==
    tz.trans = <<>>
    => \A k \in 1..Len(emitted) :
           emitted[k] = _next_wallclock_datetime(
                            IF k = 1 THEN Truncated(given) ELSE emitted[k - 1],
                            entry, budget)

\* C12: outside the transition windows the DST layer is the identity: a pass
\* whose cursor and search result are neither ambiguous nor missing emits
\* exactly the search result, at fold 0, arms no goto and takes no `continue`;
\* in a zone without transitions the emitted values are the successive
\* applications of the search to the minute-truncated start.
C12_IdentityOutsideWindows ==
    [][PlainPassYieldsSearchResult]_vars /\ []EmittedIsIteratedSearch

\* C12 witness: in a zone with transitions, a value emitted by a pass that
\* started after an earlier jump back, from a cursor outside the windows
C12_Witness ==
    /\ tz.trans # <<>>
    /\ Len(emitted) >= 2
    /\ armed > 0
    /\ goto_datetime = None
    /\ start = emitted[Len(emitted)]
    /\ wresult = start
    /\ ~InSomeWindow(tz, start)
    /\ ~InSomeWindow(tz, emitted[Len(emitted) - 1])

(***************************************************************************)
(* The days of a month, from the calendar itself.                          *)
(***************************************************************************)
\* the number of days of month mo of year y
CalendarMonthLength(y, mo) ==
    IF mo = 2
    THEN (IF (y % 4 = 0 /\ y % 100 # 0) \/ y % 400 = 0 THEN 29 ELSE 28)
    ELSE 30 + ((mo + (mo \div 8)) % 2)

\* the weekday of y-mo-d with Sunday = 0 (Zeller's congruence, whose 0 is Saturday)
SundayWeekday(y, mo, d) ==
    LET yy == IF mo < 3 THEN y - 1 ELSE y
        mm == IF mo < 3 THEN mo + 12 ELSE mo
        h  == (d + ((13 * (mm + 1)) \div 5) + (yy % 100) + ((yy % 100) \div 4)
                 + ((yy \div 100) \div 4) + 5 * (yy \div 100)) % 7
    IN  (h + 6) % 7

\* the day-of-week field selects y-mo-d; the value 7 counts as Sunday
DayOfWeekSelects(e, y, mo, d) ==
    \E w \in SeqToSet(e.days_of_week) : w % 7 = SundayWeekday(y, mo, d)

\* the days of month y-mo the two day fields select together: both fields
\* when either is a wildcard, either field when both are explicit
SelectedDays(e, y, mo) ==
    SelectSeq([d \in 1..CalendarMonthLength(y, mo) |-> d],
              LAMBDA d :
                  IF e.day_star \/ e.day_of_week_star
                  THEN d \in SeqToSet(e.days) /\ DayOfWeekSelects(e, y, mo, d)
                  ELSE d \in SeqToSet(e.days) \/ DayOfWeekSelects(e, y, mo, d))

\* C13: merge_days_and_days_of_week returns, in ascending order, exactly the
\* days of the month (leap years included) that the day field and the true
\* weekday (Sunday = 0, 7 counting as Sunday) select: with AND when either
\* field is a wildcard, with OR when both are explicit.
C13_MergeIsCalendarSelection ==
    pc = "ret" => wresult = SelectedDays(entry, given.year, given.month)

\* C13 witness: with both fields explicit (OR), 29 February of a leap year is
\* returned for its weekday alone
C13_Witness ==
    /\ pc = "ret"
    /\ ~entry.day_star /\ ~entry.day_of_week_star
    /\ given.month = 2
    /\ 29 \notin SeqToSet(entry.days)
    /\ 29 \in SeqToSet(wresult)

(***************************************************************************)
(* The parser, from the text of the expression.                            *)
(***************************************************************************)
\* the texts of the whitespace-separated fields of the expression, in order
FieldTexts ==
    LET words == SelectSeq(expression, LAMBDA item : "word" \in DOMAIN item)
    IN  [k \in 1..Len(words) |-> words[k].word]

BeginsWithStar(text) == Len(text) >= 1 /\ text[1] = "*"

\* C14: a field's wildcard marker is set exactly when the field's text begins
\* with `*` (not when the field covers its range by other syntax or has `*`
\* in a later list item); the minute and hour markers select the wildcard DST
\* policy, and the day-of-month and day-of-week markers select AND (either
\* begins with `*`) or OR in the merged days.
C14_StarMarkersFromText ==
    pc = "parsed"
    => \A texts \in {FieldTexts} :
           /\ entry.minute_star = BeginsWithStar(texts[1])
           /\ entry.hour_star = BeginsWithStar(texts[2])
           /\ entry.day_star = BeginsWithStar(texts[3])
           /\ entry.day_of_week_star = BeginsWithStar(texts[5])
           /\ is_wildcard(entry) = (BeginsWithStar(texts[1]) \/ BeginsWithStar(texts[2]))
           /\ \A y \in {2024, 2025} : \A mo \in SeqToSet(entry.months) :
                  merge_days_and_days_of_week(entry, DateTime(y, mo, 1, 0, 0))
                      = SelectedDays([entry EXCEPT
                                         !.day_star = BeginsWithStar(texts[3]),
                                         !.day_of_week_star = BeginsWithStar(texts[5])],
                                     y, mo)

\* C14 witness: `*,5 6,*/1 * * *` is parsed: the minute marker is set, the
\* hour field covers every hour through a later `*/1` and its marker is not
C14_Witness ==
    /\ pc = "parsed"
    /\ FieldTexts[1] = <<"*", ",", "5">>
    /\ FieldTexts[2] = <<"6", ",", "*", "/", "1">>
    /\ entry.minute_star /\ ~entry.hour_star
    /\ entry.hours = AllHours

Maximum(S) == CHOOSE x \in S : \A y \in S : y <= x

\* the greatest length month mo can have
LongestLength(mo) == IF mo = 2 THEN 29 ELSE CalendarMonthLength(2023, mo)

\* the expression passes every check before the feasibility check
OtherwiseValid ==
    /\ pc # "parse"
    /\ raised \notin {CronDstError(LENGTH_ERROR), CronDstError(FIELDS_ERROR),
                      CronDstError(EMPTY_ERROR)}
    /\ \A k \in 1..5 : raised # CronDstError(BAD_FIELD[k])

\* the numbers field k of the expression denotes
FieldSet(k) == FieldNumbers(k, FieldTexts[k]).numbers

\* C15: an otherwise valid expression fails with the 'results in no triggers'
\* error if and only if its day-of-week field is a wildcard and the largest
\* day-of-month value exceeds the greatest length (February 29) among the
\* selected months.
C15_NoTriggersExactly ==
    OtherwiseValid
    => ((raised = CronDstError(NO_TRIGGERS_ERROR))
        <=> /\ BeginsWithStar(FieldTexts[5])
            /\ Maximum(FieldSet(3)) > Maximum({LongestLength(mo) : mo \in FieldSet(4)}))

\* C15 witness: `0 0 30 2,3 */1` passes the check (March has 30 days) although
\* the day-of-week field is a wildcard and February has no day 30
C15_Witness ==
    /\ pc = "parsed"
    /\ FieldTexts[5] = <<"*", "/", "1">>
    /\ entry.days = <<30>>
    /\ entry.months = <<2, 3>>

\* the schedule the expression denotes has a calendar date: a month of its
\* month field, in a leap or a common year, with a day its day fields select
HasSomeDate ==
    \E y \in {2023, 2024} : \E mo \in FieldSet(4) :
        SelectedDays([days |-> Sorted(3, FieldSet(3)),
                      days_of_week |-> Sorted(5, FieldSet(5)),
                      day_star |-> BeginsWithStar(FieldTexts[3]),
                      day_of_week_star |-> BeginsWithStar(FieldTexts[5])], y, mo) # <<>>

\* C16 as stated: an expression is rejected as 'results in no triggers' only
\* when no calendar date satisfies its month and day constraints.
C16_RejectedOnlyWithoutDates ==
    raised = CronDstError(NO_TRIGGERS_ERROR) => ~HasSomeDate

\* C16 amended: an expression is rejected as 'results in no triggers' only
\* when its day-of-week field is a wildcard and its largest day-of-month value
\* occurs in no selected month of any year; its smaller day-of-month values
\* are not looked at, so the rejected schedule may have matching dates.
C16_RejectedByLargestDay ==
    raised = CronDstError(NO_TRIGGERS_ERROR)
    => /\ BeginsWithStar(FieldTexts[5])
       /\ \A y \in {2023, 2024} : \A mo \in FieldSet(4) :
              Maximum(FieldSet(3)) > CalendarMonthLength(y, mo)

\* C16 witness: `0 0 1,30 2 *` is rejected although 1 February matches it
C16_Witness ==
    /\ raised = CronDstError(NO_TRIGGERS_ERROR)
    /\ FieldSet(3) = {1, 30}
    /\ FieldSet(4) = {2}
    /\ HasSomeDate

\* the number of characters of the expression as it was given
RECURSIVE CharacterCount(_, _)
CharacterCount(expr, k) ==
    IF k = 0 THEN 0
    ELSE CharacterCount(expr, k - 1)
         + (IF "ws" \in DOMAIN expr[k] THEN expr[k].ws ELSE Len(expr[k].word))

\* C20: the length limit counts the whole expression, surrounding whitespace
\* included, before anything else is looked at: an expression of more than
\* 1000 characters fails with the length error whatever it holds, and
\* `* * * * *` padded to exactly 1000 characters is parsed.
C20_LengthOfRawExpression ==
    pc # "parse"
    => /\ (CharacterCount(expression, Len(expression)) > 1000)
              <=> (raised = CronDstError(LENGTH_ERROR))
       /\ (/\ CharacterCount(expression, Len(expression)) = 1000
           /\ FieldTexts = <<Star, Star, Star, Star, Star>>)
              => (pc = "parsed" /\ entry.minute_star /\ entry.day_of_week_star)

\* C20 witness: five `*` fields with trailing whitespace up to 1000 characters
\* are parsed
C20_Witness ==
    /\ pc = "parsed"
    /\ CharacterCount(expression, Len(expression)) = 1000
    /\ "ws" \in DOMAIN expression[Len(expression)]
    /\ expression[Len(expression)].ws > 900

\* four `*` fields with 1000 trailing blanks give the length error rather than
\* the field-count error
C20_WitnessOverlong ==
    /\ pc = "raised"
    /\ raised = CronDstError(LENGTH_ERROR)
    /\ Len(FieldTexts) = 4

(***************************************************************************)
(* The search across months without a selected day.                        *)
(***************************************************************************)
\* the months (year, month) strictly after a's month and before b's month
MonthsBetween(a, b) ==
    {ym \in (a.year..b.year) \X (1..12) :
        /\ a.year * 12 + a.month < ym[1] * 12 + ym[2]
        /\ ym[1] * 12 + ym[2] < b.year * 12 + b.month}

\* C17: when the search leaves the month of its start, the result is the
\* first selected day, at the smallest hour and minute, of the first allowed
\* month after it that has a selected day: no allowed month with a selected
\* day is skipped, months without one are passed over and the year rolls on.
\* `0 12 29 2 *` gives only 29 February of leap years and `0 12 31 * *` only
\* the 31st of the months that have 31 days.
C17_FirstMonthWithADay ==
    (pc = "ret" /\ wresult # None)
    => /\ (wresult.year * 12 + wresult.month # start.year * 12 + start.month)
          => /\ wresult.hour = entry.hours[1]
             /\ wresult.minute = entry.minutes[1]
             /\ wresult.month \in SeqToSet(entry.months)
             /\ SelectedDays(entry, wresult.year, wresult.month) # <<>>
             /\ wresult.day = SelectedDays(entry, wresult.year, wresult.month)[1]
             /\ \A ym \in MonthsBetween(start, wresult) :
                    ym[2] \in SeqToSet(entry.months)
                    => SelectedDays(entry, ym[1], ym[2]) = <<>>
       /\ (entry.days = <<29>> /\ entry.months = <<2>> /\ entry.days_of_week = AllDaysOfWeek)
          => /\ wresult.month = 2 /\ wresult.day = 29
             /\ wresult.year % 4 = 0
             /\ wresult.year - start.year <= 4
       /\ (entry.days = <<31>> /\ entry.months = AllMonths /\ entry.days_of_week = AllDaysOfWeek)
          => /\ wresult.day = 31
             /\ wresult.month \in {1, 3, 5, 7, 8, 10, 12}
             /\ wresult.year * 12 + wresult.month - (start.year * 12 + start.month) <= 2

\* C17 witness: `0 12 29 2 *` from 2023 gives 29 February 2024, 2028 and 2032
C17_Witness ==
    /\ pc = "ret"
    /\ entry.days = <<29>> /\ entry.months = <<2>>
    /\ given.year = 2023
    /\ passes = 3
    /\ wresult # None
    /\ <<wresult.year, wresult.month, wresult.day, wresult.hour, wresult.minute>>
           = <<2032, 2, 29, 12, 0>>
    /\ <<start.year, start.month, start.day>> = <<2028, 2, 29>>

(***************************************************************************)
(* The search budget.                                                      *)
(***************************************************************************)
\* datetime a lies at most n calendar years after datetime b
WithinYears(a, b, n) == CivilLeq(a, [b EXCEPT !.year = b.year + n])

\* C18: max_years_between_matches limits the search in years after its start:
\* a returned datetime is at most that many years after the start, and no
\* match is returned when the earliest one lies further away.
C18_ResultWithinBudgetYears ==
    (pc = "ret" /\ wresult # None)
    => WithinYears(wresult, start, Max(budget, 0))

\* a search with a budget of one year returns a datetime four years after its
\* start: `0 12 29 2 *` from 2024-03-01 00:00 gives 2028-02-29 12:00
C18_FourYearsOnOneYearBudget ==
    /\ pc = "ret"
    /\ budget = 1
    /\ entry.days = <<29>> /\ entry.months = <<2>>
    /\ <<start.year, start.month, start.day, start.hour, start.minute>>
           = <<2024, 3, 1, 0, 0>>
    /\ wresult # None
    /\ <<wresult.year, wresult.month, wresult.day, wresult.hour, wresult.minute>>
           = <<2028, 2, 29, 12, 0>>

(***************************************************************************)
(* Errors of the iteration.                                                *)
(***************************************************************************)
\* C19: iteration raises no errors: from every start in the years 1..9999 and
\* with every budget, each pull yields a value or ends the sequence; a search
\* that advances the year to the end of the calendar ends the sequence.
C19_IterationRaisesNothing == raised = None /\ pc \in {"loop", "done"}

\* `* * * * *` from 9999-12-31 23:58 UTC yields 23:59 and then raises ValueError
C19_RaisedAtEndOfCalendar ==
    /\ pc = "raised"
    /\ raised = ValueError("year 10000 is out of range")
    /\ entry = EveryMinute
    /\ tz.trans = <<>>
    /\ <<given.year, given.month, given.day, given.hour, given.minute>>
           = <<9999, 12, 31, 23, 58>>
    /\ Len(emitted) = 1
    /\ emitted[1] = DateTime(9999, 12, 31, 23, 59)

\* a zero or negative budget ends the sequence at the first pull, without a value
ZeroBudgetEndsSequence ==
    (budget <= 0 /\ pc # "loop") => (pc = "done" /\ emitted = <<>> /\ raised = None)

(***************************************************************************)
(* The parser, token by token.                                             *)
(***************************************************************************)
\* the bounds and the names of the five fields, as documented
ClaimedBounds == << <<0, 59>>, <<0, 23>>, <<1, 31>>, <<1, 12>>, <<0, 7>> >>
ClaimedNames == <<"minute", "hour", "day-of-month", "month", "day-of-week">>

\* the error that names field idx
BadField(idx) == CronDstError("Bad " \o ClaimedNames[idx])

\* the sequence of an entry that belongs to field idx
FieldValues(e, idx) == <<e.minutes, e.hours, e.days, e.months, e.days_of_week>>[idx]

\* C21: in each field the lower and the upper bound are accepted as a single
\* value and as the endpoints of a range; one below the lower bound and one
\* above the upper bound are rejected with the error that names the field, as
\* a single value and as an endpoint of a range.
C21_BoundsAcceptedNeighboursRejected ==
    pc # "parse"
    => \A idx \in 1..5 :
           LET lower == ClaimedBounds[idx][1]
               upper == ClaimedBounds[idx][2]
           IN  /\ \A n \in {lower, upper} :
                      expression = FieldCase(idx, NumberText(n))
                      => pc = "parsed" /\ FieldValues(entry, idx) = <<n>>
               /\ \A n \in {lower - 1, upper + 1} :
                      expression = FieldCase(idx, NumberText(n))
                      => pc = "raised" /\ raised = BadField(idx)
               /\ \A a \in {lower, upper} : \A b \in {lower, upper} :
                      (a <= b /\ expression = FieldCase(idx, RangeText(a, b)))
                      => /\ pc = "parsed"
                         /\ FieldValues(entry, idx)[1] = a
                         /\ FieldValues(entry, idx)[Len(FieldValues(entry, idx))] = b
                         /\ Len(FieldValues(entry, idx)) = b - a + 1
               /\ \A b \in {lower, upper} :
                      expression = FieldCase(idx, RangeText(lower - 1, b))
                      => pc = "raised" /\ raised = BadField(idx)
               /\ \A a \in {lower, upper} :
                      expression = FieldCase(idx, RangeText(a, upper + 1))
                      => pc = "raised" /\ raised = BadField(idx)

\* C21 witness: `* * * * 0-8` is rejected with `Bad day-of-week`
C21_Witness ==
    /\ pc = "raised"
    /\ expression = FieldCase(5, RangeText(0, 8))
    /\ raised = CronDstError("Bad day-of-week")

\* `* * * * 7` is parsed, with 7 as the only day of the week
C21_WitnessAccepted ==
    /\ pc = "parsed"
    /\ expression = FieldCase(5, <<"7">>)
    /\ entry.days_of_week = <<7>>

\* {a, a + s, ...} up to b
Progression(a, s, b) == {n \in a..b : (n - a) % s = 0}

\* tokens read by hand: each item of the list has its first number (the lower
\* bound of the field when left out), its last number (the upper bound when
\* left out) and its step
TokenCases == {
    [token |-> <<"*", "/", "2", "0">>, items |-> {[step |-> 20]}],
    [token |-> <<"*", "/", "2", "1">>, items |-> {[step |-> 21]}],
    [token |-> <<"*", "/", "6", "0">>, items |-> {[step |-> 60]}],
    [token |-> <<"*", "/", "9", "9", "9">>, items |-> {[step |-> 999]}],
    [token |-> <<"*", ",", "*">>, items |-> {[step |-> 1]}],
    [token |-> <<"5">>, items |-> {[from |-> 5, to |-> 5, step |-> 1]}],
    [token |-> <<"2", "-", "3", "/", "1">>, items |-> {[from |-> 2, to |-> 3, step |-> 1]}],
    [token |-> <<"2", "-", "1", "0", "/", "4">>, items |-> {[from |-> 2, to |-> 10, step |-> 4]}],
    [token |-> <<"2", "-", "1", "0", "/", "5">>, items |-> {[from |-> 2, to |-> 10, step |-> 5]}],
    [token |-> <<"2", "-", "1", "0", "/", "8">>, items |-> {[from |-> 2, to |-> 10, step |-> 8]}],
    [token |-> <<"2", "-", "1", "0", "/", "9">>, items |-> {[from |-> 2, to |-> 10, step |-> 9]}],
    [token |-> <<"3", "-", "7", "/", "5">>, items |-> {[from |-> 3, to |-> 7, step |-> 5]}],
    [token |-> <<"0", "/", "1", "5">>, items |-> {[from |-> 0, step |-> 15]}],
    [token |-> <<"3", "/", "1">>, items |-> {[from |-> 3, step |-> 1]}],
    [token |-> <<"3", "/", "5">>, items |-> {[from |-> 3, step |-> 5]}],
    [token |-> <<"1", "/", "9", "9", "9">>, items |-> {[from |-> 1, step |-> 999]}],
    [token |-> <<"1", ",", "3", "-", "5", ",", "*", "/", "2", "0">>,
     items |-> {[from |-> 1, to |-> 1, step |-> 1], [from |-> 3, to |-> 5, step |-> 1], [step |-> 20]}],
    [token |-> <<"2", "-", "4", ",", "3", "-", "6">>, items |-> {[from |-> 2, to |-> 4, step |-> 1], [from |-> 3, to |-> 6, step |-> 1]}],
    [token |-> <<"5", ",", "5", ",", "1", "-", "1">>, items |-> {[from |-> 5, to |-> 5, step |-> 1], [from |-> 1, to |-> 1, step |-> 1]}],
    [token |-> <<"4", "/", "2", ",", "1">>, items |-> {[from |-> 4, step |-> 2], [from |-> 1, to |-> 1, step |-> 1]}] }

\* the first and the last number of an item in field idx
ItemFirst(idx, item) == IF "from" \in DOMAIN item THEN item.from ELSE ClaimedBounds[idx][1]
ItemLast(idx, item) == IF "to" \in DOMAIN item THEN item.to ELSE ClaimedBounds[idx][2]

\* every item of the token lies within the bounds of field idx
CaseInBounds(idx, items) ==
    \A item \in items :
        /\ ClaimedBounds[idx][1] <= ItemFirst(idx, item)
        /\ ItemFirst(idx, item) <= ItemLast(idx, item)
        /\ ItemLast(idx, item) <= ClaimedBounds[idx][2]

\* the union of the expansions of the items
CaseValues(idx, items) ==
    UNION {Progression(ItemFirst(idx, item), item.step, ItemLast(idx, item)) : item \in items}

\* the values of field idx are exactly S, or the whole expression was
\* rejected for having no triggers
FieldIs(idx, S) ==
    /\ raised \in {None, CronDstError(NO_TRIGGERS_ERROR)}
    /\ pc = "parsed" => SeqToSet(FieldValues(entry, idx)) = S

\* C22: `*` and `*/s` expand to the lower bound and every s-th value up to
\* the upper bound, `N` to N, `N/s` to N and every s-th value up to the upper
\* bound (as `N-upper/s` does), `A-B` and `A-B/s` to A and every s-th value up
\* to B; a field is the union of its comma-separated items, and a step larger
\* than the range leaves the first value only.
C22_TokenExpansion ==
    pc # "parse"
    => \A idx \in 1..5 :
           /\ \A case \in TokenCases :
                  (expression = FieldCase(idx, case.token) /\ CaseInBounds(idx, case.items))
                  => FieldIs(idx, CaseValues(idx, case.items))
           /\ expression \in {FieldCase(idx, token) : token \in ShorthandTokens(idx)}
                  => FieldIs(idx, Progression(3, 5, ClaimedBounds[idx][2]))
           /\ (pc = "parsed" /\ Len(FieldTexts) = 5 /\ FieldTexts[idx] = Star)
                  => SeqToSet(FieldValues(entry, idx))
                         = ClaimedBounds[idx][1]..ClaimedBounds[idx][2]
           /\ (pc = "parsed" /\ expression = FieldCase(idx, <<"*", "/", "9", "9", "9">>))
                  => FieldValues(entry, idx) = <<ClaimedBounds[idx][1]>>

\* C22 witness: `1,3-5,*/20 * * * *` is parsed to the minutes 0, 1, 3, 4, 5, 20, 40
C22_Witness ==
    /\ pc = "parsed"
    /\ expression = FieldCase(1, <<"1", ",", "3", "-", "5", ",", "*", "/", "2", "0">>)
    /\ entry.minutes = <<0, 1, 3, 4, 5, 20, 40>>

\* `* * 2-10/9 * *` is parsed to day 2 only
C22_WitnessLargeStep ==
    /\ pc = "parsed"
    /\ expression = FieldCase(3, <<"2", "-", "1", "0", "/", "9">>)
    /\ entry.days = <<2>>

\* tokens that are malformed in every field: a step that is zero, negative,
\* empty or no integer, a reversed range, a range with two `-` or with an
\* empty or unknown endpoint, an empty list item, an item that is neither a
\* number nor a name, `*` followed or preceded by something that is no step
MalformedEverywhere == {
    <<"1", "/", "0">>, <<"*", "/", "0">>, <<"1", "/", "-", "1">>, <<"*", "/", "-", "2">>,    \* 1/0  */0  1/-1  */-2
    <<"1", "/">>, <<"*", "/">>, <<"1", "/", "a">>, <<"1", "/", "1", ".", "5">>,    \* 1/  */  1/a  1/1.5
    <<"1", "/", "j", "a", "n">>, <<"1", "/", "m", "o", "n">>, <<"5", "-", "3">>, <<"1", "-", "2", "-", "3">>,    \* 1/jan  1/mon  5-3  1-2-3
    <<"1", "-", "-", "2">>, <<"1", "-">>, <<"1", "-", "a">>, <<",">>,    \* 1--2  1-  1-a  ,
    <<",", ",">>, <<"1", ",">>, <<",", "1">>, <<"1", ",", ",", "2">>,    \* ,,  1,  ,1  1,,2
    <<"a">>, <<"1", "j", "a", "n">>, <<"1", "m", "o", "n">>, <<"J", "A", "N">>,    \* a  1jan  1mon  JAN
    <<"*", "*">>, <<"*", "-", "*">>, <<"*", "5">>, <<"5", "*">>,    \* **  *-*  *5  5*
    <<"*", "-", "5">>, <<"-">>, <<"/", "2">>    \* *-5  -  /2
}

\* names: the fields that accept the token, and the values it stands for
NameCases == {
    [token |-> <<"j", "a", "n">>, field |-> 4, values |-> {1}],
    [token |-> <<"m", "o", "n">>, field |-> 5, values |-> {1}],
    [token |-> <<"j", "a", "n", "-", "m", "a", "r">>, field |-> 4, values |-> {1, 2, 3}],
    [token |-> <<"m", "o", "n", "-", "f", "r", "i">>, field |-> 5, values |-> {1, 2, 3, 4, 5}],
    [token |-> <<"f", "e", "b", "/", "2">>, field |-> 4, values |-> {2, 4, 6, 8, 10, 12}] }

\* expressions with several bad fields, and the leftmost of them
SeveralBadCases == {
    [words |-> <<<<"a">>, <<"b">>, <<"*">>, <<"*">>, <<"*">>>>, leftmost |-> 1],    \* a b * * *
    [words |-> <<<<"*">>, <<"a">>, <<"*">>, <<"b">>, <<"*">>>>, leftmost |-> 2],    \* * a * b *
    [words |-> <<<<"*">>, <<"*">>, <<"a">>, <<"*">>, <<"b">>>>, leftmost |-> 3],    \* * * a * b
    [words |-> <<<<"*">>, <<"*">>, <<"*">>, <<"a">>, <<"b">>>>, leftmost |-> 4],    \* * * * a b
    [words |-> <<<<"6", "0">>, <<"2", "4">>, <<"3", "2">>, <<"1", "3">>, <<"8">>>>, leftmost |-> 1],    \* 60 24 32 13 8
    [words |-> <<<<"*">>, <<"2", "4">>, <<"0">>, <<"*">>, <<"8">>>>, leftmost |-> 2],    \* * 24 0 * 8
    [words |-> <<<<"*">>, <<"*">>, <<"5", "-", "3">>, <<"1", "/", "0">>, <<"*", "*">>>>, leftmost |-> 3],    \* * * 5-3 1/0 **
    [words |-> <<<<"0">>, <<"0">>, <<"3", "1">>, <<"2">>, <<"a">>>>, leftmost |-> 5],    \* 0 0 31 2 a
    [words |-> <<<<"0">>, <<"0">>, <<"3", "1">>, <<"a">>, <<"*">>>>, leftmost |-> 4]    \* 0 0 31 a *
}

\* C23: a malformed token makes the parse fail with a CronDstError that names
\* the field, and no entry is returned: a step that is zero, negative, empty
\* or no integer, a reversed range, a range with more than one `-`, an empty
\* list item, an item that is no number and no name of the field (names are
\* accepted in the month and day-of-week fields only), `*` with anything but
\* a step.  With several bad fields the error names the leftmost.
C23_MalformedTokenFails ==
    /\ pc = "raised" => (entry = None /\ raised.type = "CronDstError")
    /\ pc = "parsed" => (entry # None /\ raised = None)
    /\ pc # "parse"
       => /\ \A idx \in 1..5 :
                 /\ \A token \in MalformedEverywhere :
                        expression = FieldCase(idx, token)
                        => pc = "raised" /\ raised = BadField(idx)
                 /\ \A case \in NameCases :
                        expression = FieldCase(idx, case.token)
                        => IF idx = case.field
                           THEN pc = "parsed"
                                /\ SeqToSet(FieldValues(entry, idx)) = case.values
                           ELSE pc = "raised" /\ raised = BadField(idx)
          /\ \A case \in SeveralBadCases :
                 expression = Expression(0, case.words, 1, 0)
                 => pc = "raised" /\ raised = BadField(case.leftmost)

\* C23 witness: `* * 5-3 1/0 **` fails with `Bad day-of-month`
C23_Witness ==
    /\ pc = "raised"
    /\ expression = Expression(0, <<Star, Star, <<"5", "-", "3">>, <<"1", "/", "0">>,
                                    <<"*", "*">>>>, 1, 0)
    /\ raised = CronDstError("Bad day-of-month")
    /\ entry = None

\* `jan` as the hour field fails with `Bad hour`
C23_WitnessName ==
    /\ pc = "raised"
    /\ expression = FieldCase(2, <<"j", "a", "n">>)
    /\ raised = CronDstError("Bad hour")

\* C24: every entry a successful parse returns has five sequences that are
\* non-empty, strictly ascending (so without duplicates) and within the bounds
\* of their fields; the error for an empty field is never raised.
C24_EntryInvariants ==
    /\ raised # CronDstError(EMPTY_ERROR)
    /\ pc = "parsed"
       => \A idx \in 1..5 :
              \A values \in {FieldValues(entry, idx)} :
                  /\ Len(values) >= 1
                  /\ \A i \in 1..(Len(values) - 1) : values[i] < values[i + 1]
                  /\ \A i \in 1..Len(values) :
                         /\ ClaimedBounds[idx][1] <= values[i]
                         /\ values[i] <= ClaimedBounds[idx][2]

\* C24 witness: `* 4/2,1 * * *`, a list out of order, is parsed to the hours
\* 1, 4, 6, ..., 22
C24_Witness ==
    /\ pc = "parsed"
    /\ expression = FieldCase(2, <<"4", "/", "2", ",", "1">>)
    /\ entry.hours = <<1, 4, 6, 8, 10, 12, 14, 16, 18, 20, 22>>

\* `* 5,5,1-1 * * *`, with its repeated 5, is parsed to the hours 1 and 5
C24_WitnessRepeated ==
    /\ pc = "parsed"
    /\ expression = FieldCase(2, <<"5", ",", "5", ",", "1", "-", "1">>)
    /\ entry.hours = <<1, 5>>

(***************************************************************************)
(* Two iterations over one schedule.                                       *)
(***************************************************************************)
\* an iteration run on its own from the cursor (st, mono, goto) until it has
\* emitted n values, has ended or has used its passes
RECURSIVE AloneRun(_, _, _, _, _, _)
AloneRun(st, mono, goto, out, fuel, n) ==
    IF Len(out) >= n \/ fuel = 0 THEN [emitted |-> out, pc |-> "loop"]
    ELSE Bind(LoopPass(tz, entry, budget, st, mono, goto), LAMBDA p :
             IF p.branch = "return" THEN [emitted |-> out, pc |-> "done"]
             ELSE IF p.branch = "raise" THEN [emitted |-> out, pc |-> "raised"]
             ELSE IF p.branch = "yield"
             THEN AloneRun(p.start, p.result, p.goto, Append(out, p.result), fuel - 1, n)
             ELSE AloneRun(p.start, mono, p.goto, out, fuel - 1, n))

\* the first n values, and the way it ends, of the iteration from st run alone
Alone(st, n) ==
    AloneRun(NormalizedStart(tz, st), NormalizedStart(tz, st), None, <<>>,
             (n + 1) * MaxPasses, n)

\* a pass of one generator leaves the locals of the other and the shared
\* entry as they are
OtherUntouched ==
    \A i \in 1..2 :
        (emitted'[i] # emitted[i] \/ passes'[i] # passes[i])
        => \A j \in (1..2) \ {i} :
               /\ start'[j] = start[j]
               /\ monotonic_datetime'[j] = monotonic_datetime[j]
               /\ goto_datetime'[j] = goto_datetime[j]
               /\ emitted'[j] = emitted[j]
               /\ entry' = entry

\* each generator has emitted what it emits when run alone, and has ended
\* the way it ends alone
EmittedAsAlone ==
    \A i \in 1..2 :
        /\ emitted[i] = Alone(given[i], Len(emitted[i])).emitted
        /\ pc[i] # "loop"
           => \A alone \in {Alone(given[i], Len(emitted[i]) + 1)} :
                  alone.pc = pc[i] /\ alone.emitted = emitted[i]

TickBefore(d, g) ==
    /\ d.sub = 1 /\ d.fold = 0
    /\ DateKey(d) = DateKey(AddMinutes(g, -1))
    /\ TimeKey(d) = TimeKey(AddMinutes(g, -1)) + 1

\* a pass never sets start to an earlier absolute instant
StartInstantAdvances == TsDiff(tz, start', start) >= 0

\* a pass other than the jump back moves start forward in civil time or
\* leaves it; the jump back puts it one microsecond before goto_datetime,
\* an earlier civil time
StartCivilAdvances ==
    IF ThisPass.branch = "goto"
    THEN /\ CivilLess(start', start)
         /\ start'.sub = 1 /\ start'.fold = 0
         /\ goto_datetime # None => TickBefore(start', goto_datetime)
    ELSE CivilLeq(start, start')

\* C26 as stated: start is never set to an absolute instant earlier than one
\* it held before.
C26_StartInstantNeverEarlier == [][StartInstantAdvances]_vars

\* C26: start advances in civil (wall-clock) time on every pass of the loop
\* except the jump back to goto_datetime, which sets it one microsecond
\* before goto_datetime, an earlier civil time and an earlier absolute
\* instant than it held before.
C26_StartAdvancesInCivilTime == [][StartCivilAdvances]_vars

\* C26 witness: after the jump back start is earlier, as an instant and in
\* civil time, than the last emitted value, which start held before
C26_Witness ==
    /\ pc = "loop" /\ emitted # <<>> /\ passes > 0
    /\ \E t \in Transitions(tz) : IsBackward(t) /\ TickBefore(start, t.lo)
    /\ goto_datetime = None /\ armed > 0
    /\ TsDiff(tz, start, emitted[Len(emitted)]) < 0
    /\ CivilLess(start, emitted[Len(emitted)])

(***************************************************************************)
(* A two-hour clock change (Antarctica/Troll).  The iterator reads "the    *)
(* hour of the cursor plus one hour" as the end of a window, which is the  *)
(* end only when the window lies within one hour of the clock.             *)
(***************************************************************************)
TwoHourZone == \E t \in Transitions(tz) : TimeKey(t.hi) - TimeKey(t.lo) > 120

\* `*/20 * * * *` from 01:15 at the earlier fold on 29 October: the first
\* value emitted is 00:00, before the start
C3_FirstValueBeforeStart ==
    /\ TwoHourZone
    /\ given.sub = 0 /\ given.fold = 0
    /\ emitted # <<>>
    /\ TsDiff(tz, emitted[1], given) < 0

\* a wildcard schedule has emitted the same civil minute at the same fold
\* twice: `0 * * * *` goes 01:00, 00:00, 01:00 at the earlier fold
C4_MinuteEmittedAgain ==
    /\ TwoHourZone
    /\ Wildcard(entry)
    /\ \E i \in 1..Len(emitted) : \E j \in 1..Len(emitted) :
           /\ i < j
           /\ emitted[i] = emitted[j]
           /\ \E t \in Transitions(tz) : IsBackward(t) /\ InWindow(t, emitted[i])

\* a fixed-time schedule started inside the ambiguous interval at the later
\* fold has emitted a value of the interval, at the later fold: `0 2 * * *`
\* from 01:30 emits 02:00
C5_FixedEmittedAtLaterFold ==
    /\ TwoHourZone
    /\ ~Wildcard(entry)
    /\ given.fold = 1
    /\ emitted # <<>>
    /\ emitted[1].fold = 1
    /\ \E t \in Transitions(tz) :
           IsBackward(t) /\ InWindow(t, given) /\ InWindow(t, emitted[1])

\* a fixed-time schedule whose match lies in the second hour of the gap has
\* emitted, in its place, a time one hour after the gap's end that its fields
\* do not select: `0 2 * * *` emits 04:00 for the gap 01:00-03:00
C7_EmittedPastGapEnd ==
    /\ TwoHourZone
    /\ ~Wildcard(entry)
    /\ emitted # <<>>
    /\ ~SatisfiesFields(entry, emitted[1])
    /\ \E t \in Transitions(tz) :
           /\ IsForward(t)
           /\ CivilLess(given, t.lo)
           /\ DateKey(emitted[1]) = DateKey(t.hi)
           /\ CivilLess(t.hi, emitted[1])

\* an emitted value is an earlier instant than the value emitted before it
C9_EmittedEarlierInstant ==
    /\ TwoHourZone
    /\ \E i \in 1..Len(emitted) :
           i > 1 /\ TsDiff(tz, emitted[i], emitted[i - 1]) < 0

\* a value whose civil time lies outside every window, found from a cursor
\* outside every window, was emitted with the later-fold tag
C12_LaterFoldOutsideWindows ==
    /\ TwoHourZone
    /\ emitted # <<>>
    /\ emitted[Len(emitted)].fold = 1
    /\ ~InSomeWindow(tz, emitted[Len(emitted)])
    /\ wresult = [emitted[Len(emitted)] EXCEPT !.fold = 0]
    /\ start = emitted[Len(emitted)]

(***************************************************************************)
(* The prepared jump back, goto_datetime.                                  *)
(***************************************************************************)
\* the backward transitions in whose window the civil time of d lies
AmbiguousAt(d) == {t \in Transitions(tz) : IsBackward(t) /\ InWindow(t, d)}

\* a pass that arms the target does so for a wildcard schedule, from a cursor
\* at the earlier fold inside an ambiguous interval, with no target pending,
\* and aims at the first minute of that interval at the later fold; if the
\* same pass already takes the jump, the cursor shows where it aimed
ArmedAtFirstMinute ==
    armed' # armed
    => /\ Wildcard(entry)
       /\ start.fold = 0
       /\ goto_datetime = None
       /\ AmbiguousAt(start) # {}
       /\ \A t \in AmbiguousAt(start) :
              IF goto_datetime' # None
              THEN goto_datetime' = [t.lo EXCEPT !.fold = 1]
              ELSE TickBefore(start', t.lo)

\* a value emitted while the target is armed lies before it
EmittedBeforeTarget ==
    (emitted' # emitted /\ goto_datetime' # None)
    => TsDiff(tz, emitted'[Len(emitted')], goto_datetime') < 0

\* the pass whose result reaches the target emits nothing, puts the cursor
\* one microsecond before the target and clears the target; no other pass
\* clears it
JumpTakenOnce ==
    /\ (pc = "loop" /\ ThisPass.branch = "goto")
       => /\ emitted' = emitted
          /\ goto_datetime' = None
          /\ goto_datetime # None => TickBefore(start', goto_datetime)
    /\ (goto_datetime # None /\ goto_datetime' = None)
       => ThisPass.branch = "goto"

\* a fixed-time schedule never has a target; an iteration, which here passes
\* one ambiguous interval at most, arms at most once
ArmedAtMostOnce ==
    /\ armed <= 1
    /\ ~Wildcard(entry) => armed = 0 /\ goto_datetime = None
    /\ goto_datetime # None
       => \E t \in Transitions(tz) :
              IsBackward(t) /\ goto_datetime = [t.lo EXCEPT !.fold = 1]

\* C27: goto_datetime is one-shot: armed only for a wildcard schedule, from
\* an earlier-fold cursor in an ambiguous interval with no target pending,
\* at the first civil minute of the interval at the later fold; never for a
\* fixed-time schedule; no value at or after it is emitted while it is armed;
\* the first result reaching it is discarded, the cursor is put one
\* microsecond before it and it is cleared; it is armed at most once per
\* ambiguous interval.
C27_GotoOneShot ==
    /\ [][ArmedAtFirstMinute /\ EmittedBeforeTarget /\ JumpTakenOnce]_vars
    /\ []ArmedAtMostOnce

\* `0 * * * *` from 00:30 on 29 October in a zone with the ambiguous interval
\* 01:00-03:00: the target was armed a second time in the same interval,
\* after a jump back to 23:59:59.999999, an hour before the interval
C27_ArmedAgainInOneInterval ==
    /\ TwoHourZone
    /\ armed >= 2
    /\ Len(emitted) >= 3
    /\ emitted[1] = emitted[3]
    /\ AmbiguousAt(emitted[1]) # {}
    /\ AmbiguousAt(emitted[2]) = {}

\* the same properties in the zones whose windows lie within one hour of
\* the clock
GotoOneShotWithinOneHour ==
    /\ [][TwoHourZone \/ (ArmedAtFirstMinute /\ EmittedBeforeTarget /\ JumpTakenOnce)]_vars
    /\ [](TwoHourZone \/ ArmedAtMostOnce)

(***************************************************************************)
(* Termination of a pull.                                                  *)
(***************************************************************************)
\* the passes a pull has taken so far: one `continue` at most while it runs,
\* and one more pass if it ends the iteration
ContinuesBounded ==
    /\ passes <= 2
    /\ pc = "loop" => passes <= 1

\* the iterator is between two pulls, or has ended
PullOver == passes = 0 \/ pc # "loop"

\* C28: every pull terminates: between two emitted values, or an emitted
\* value and the end, the loop takes a bounded number of `continue` passes
\* (one at most); neither the skip of a gap nor the jump back repeats.
C28_EveryPullTerminates == []ContinuesBounded /\ []<>PullOver

\* C28 witness: a wildcard schedule inside a pull, after the pass that skipped
\* a gap: the cursor is one microsecond before the gap's end
C28_Witness ==
    /\ pc = "loop" /\ passes = 1
    /\ Wildcard(entry)
    /\ \E t \in Transitions(tz) : IsForward(t) /\ TickBefore(start, t.hi)

\* C28 witness: inside a pull, after the pass that jumped back
C28_WitnessJump ==
    /\ pc = "loop" /\ passes = 1
    /\ armed = 1 /\ goto_datetime = None
    /\ \E t \in Transitions(tz) : IsBackward(t) /\ TickBefore(start, t.lo)

(***************************************************************************)
(* Accepted schedules have triggers.                                       *)
(***************************************************************************)
\* C29: every accepted schedule has triggers: from every start the search
\* with the default budget of 50 years returns a match, never None: a
\* datetime after the start whose civil time satisfies the five fields.
C29_AcceptedScheduleHasNextMatch ==
    (pc = "ret" /\ budget = MAX_YEARS_BETWEEN_MATCHES)
    => /\ wresult # None
       /\ ~IsRaised(wresult)
       /\ CivilLess(start, wresult)
       /\ SatisfiesFields(entry, wresult)

\* C29 witness: `0 12 29 2 *`, which the feasibility check accepts because
\* February can have 29 days, searched from after February 2024: the match
\* is 29 February 2028, four years on
C29_Witness ==
    /\ pc = "ret" /\ budget = MAX_YEARS_BETWEEN_MATCHES
    /\ entry.days = <<29>> /\ entry.months = <<2>> /\ entry.day_of_week_star
    /\ given.year = 2024 /\ given.month > 2 /\ start = given
    /\ wresult = DateTime(2028, 2, 29, 12, 0)

(***************************************************************************)
(* What an emitted value is.                                               *)
(***************************************************************************)
\* the civil time of d is the first instant after a gap
IsGapEnd(d) ==
    \E t \in Transitions(tz) :
        IsForward(t) /\ DateKey(d) = DateKey(t.hi) /\ TimeKey(d) = TimeKey(t.hi)

\* a whole minute that satisfies the five fields or, for a fixed-time
\* schedule, is the first instant after a gap; at the later fold only if its
\* civil time is ambiguous
EmittedValueAsScheduled(d) ==
    /\ d.sub = 0
    /\ \/ SatisfiesFields(entry, d)
       \/ ~Wildcard(entry) /\ IsGapEnd(d)
    /\ d.fold = 1 => AmbiguousAt(d) # {}

\* C30: every emitted value is a whole minute whose civil time satisfies the
\* five fields, except that a fixed-time schedule may emit the first instant
\* after a gap in place of matches inside the gap; a wildcard schedule emits
\* only civil times that match, and a value has the later-fold tag only if
\* its civil time is ambiguous.
C30_EmittedValuesAsScheduled ==
    \A i \in 1..Len(emitted) : EmittedValueAsScheduled(emitted[i])

\* `0 2 * * *` across the gap 01:00-03:00 of 26 March: the value emitted is
\* 04:00, which neither satisfies the hour field nor is the first instant
\* after the gap
C30_NeitherMatchNorGapEnd ==
    /\ TwoHourZone
    /\ \E i \in 1..Len(emitted) :
           /\ ~SatisfiesFields(entry, emitted[i])
           /\ ~IsGapEnd(emitted[i])
           /\ emitted[i].fold = 0

\* a wildcard schedule has emitted a value with the later-fold tag whose
\* civil time is not ambiguous
C30_LaterFoldUnambiguous ==
    /\ TwoHourZone
    /\ Wildcard(entry)
    /\ \E i \in 1..Len(emitted) :
           emitted[i].fold = 1 /\ AmbiguousAt(emitted[i]) = {}

\* the same property in the zones whose windows lie within one hour of the
\* clock
EmittedAsScheduledWithinOneHour == TwoHourZone \/ C30_EmittedValuesAsScheduled

====
